---- MODULE Spec2Model ----
(***************************************************************************)
(* Model of the HP WMI sensors hwmon driver (src/hp-wmi-sensors.c).        *)
(*                                                                         *)
(* The source file holds two revisions of the driver back to back:         *)
(*   rev 1 (lines 1-1522): callers take state->lock around                 *)
(*         hp_wmi_update_info, there is a background refresh task, an      *)
(*         update_interval attribute and lowest/highest history;           *)
(*   rev 2 (lines 1524-2588): hp_wmi_update_info takes state->lock itself  *)
(*         after its freshness test, sensors are filtered at discovery by  *)
(*         numeric_sensor_is_connected, there is no refresh task.          *)
(* The variable rev says which revision is running; every operator that    *)
(* differs between the two takes rev as a parameter.                       *)
(*                                                                         *)
(* Strings are sequences of one-character strings. Integers carried by an  *)
(* ACPI element are the signed reading of their low 32 bits.               *)
(***************************************************************************)
EXTENDS Integers, Sequences, FiniteSets, TLC

(***************************************************************************)
(* Program constants                                                       *)
(***************************************************************************)
HP_WMI_MAX_STR_SIZE == 128
HP_WMI_MAX_PROPERTIES == 32
HP_WMI_MAX_INSTANCES == 32
HP_WMI_MIN_UPDATE_INTERVAL == 5000
HP_WMI_MAX_UPDATE_INTERVAL == 604800000

HP_WMI_TYPE_UNKNOWN == 0
HP_WMI_TYPE_OTHER == 1
HP_WMI_TYPE_TEMPERATURE == 2
HP_WMI_TYPE_VOLTAGE == 3
HP_WMI_TYPE_CURRENT == 4
HP_WMI_TYPE_TACHOMETER == 5
HP_WMI_TYPE_AIR_FLOW == 12

HP_WMI_STATUS_OK == 2
HP_WMI_STATUS_DEGRADED == 3
HP_WMI_STATUS_STRESSED == 4
HP_WMI_STATUS_PREDICTIVE_FAILURE == 5
HP_WMI_STATUS_ERROR == 6
HP_WMI_STATUS_NON_RECOVERABLE_ERROR == 7
HP_WMI_STATUS_NO_CONTACT == 12
HP_WMI_STATUS_LOST_COMMUNICATION == 13
HP_WMI_STATUS_ABORTED == 14
HP_WMI_STATUS_SUPPORTING_ENTITY_IN_ERROR == 16
HP_WMI_STATUS_COMPLETED == 17

HP_WMI_UNITS_DEGREES_C == 2
HP_WMI_UNITS_DEGREES_F == 3
HP_WMI_UNITS_DEGREES_K == 4
HP_WMI_UNITS_VOLTS == 5
HP_WMI_UNITS_AMPS == 6
HP_WMI_UNITS_RPM == 19

HP_WMI_PROPERTY_NAME == 0
HP_WMI_PROPERTY_DESCRIPTION == 1
HP_WMI_PROPERTY_SENSOR_TYPE == 2
HP_WMI_PROPERTY_OTHER_SENSOR_TYPE == 3
HP_WMI_PROPERTY_OPERATIONAL_STATUS == 4
HP_WMI_PROPERTY_CURRENT_STATE == 5
HP_WMI_PROPERTY_POSSIBLE_STATES == 6
HP_WMI_PROPERTY_BASE_UNITS == 7
HP_WMI_PROPERTY_UNIT_MODIFIER == 8
HP_WMI_PROPERTY_CURRENT_READING == 9

\* Error numbers returned (negated) by the driver.
EIO == 5
EINVAL == 22
ERANGE == 34
ENODATA == 61
EOPNOTSUPP == 95

\* long of a 32-bit build; LONG_MIN is -LONG_MAX - 1.
LONG_MAX == 2147483647
LONG_MIN == -LONG_MAX - 1

\* MILLI and ABSOLUTE_ZERO_MILLICELSIUS of linux/units.h, as the source uses them.
MILLI == 1000
ABSOLUTE_ZERO_MILLICELSIUS == -273150

(***************************************************************************)
(* Bounds of the model                                                     *)
(***************************************************************************)
\* Most instances the modelled firmware answers for at discovery.
MaxInst == 3
\* Ticks per second (HZ) and the last tick of the modelled clock.
HZ == 1
MaxJiffies == 2
\* The last tick of the clock where a reader's loads are followed one by one.
MaxTailJiffies == 5

\* The largest PossibleStates count and number of trailing integer fields of
\* the records check_wobj is run on.
MaxStates == 24
MaxTrail == 4
\* The largest SensorType and BaseUnits codes the classifier is run on.
MaxTypeCode == 13
MaxUnitCode == 20
\* The largest OperationalStatus code a poll reports.
MaxStatusCode == 20

Min(a, b) == IF a < b THEN a ELSE b
Max(a, b) == IF a > b THEN a ELSE b

(***************************************************************************)
(* ACPI objects                                                            *)
(***************************************************************************)
\* A NULL char pointer (never a string the firmware can send).
NullStr == <<"NULL">>

IntElem(v) == [type |-> "INTEGER", integer |-> v, string |-> <<>>]
StrElem(s) == [type |-> "STRING", integer |-> 0, string |-> s]

\* The NULL result of a failed wmidev_block_query.
NullObj == [type |-> "NULL", elements |-> <<>>]

Package(elems) == [type |-> "PACKAGE", elements |-> elems]

\* A well-formed HP_BIOSNumericSensor instance as the firmware lays it out.
MkWobj(name, sensor_type, other, status, cur_state, states, units, modifier, reading) ==
    Package(<<StrElem(name), StrElem(<<"d">>), IntElem(sensor_type), StrElem(other),
              IntElem(status), StrElem(cur_state)>>
            \o [k \in 1..Len(states) |-> StrElem(states[k])]
            \o <<IntElem(units), IntElem(modifier), IntElem(reading)>>)

hp_wmi_property_map(prop) ==
    IF prop \in {HP_WMI_PROPERTY_SENSOR_TYPE, HP_WMI_PROPERTY_OPERATIONAL_STATUS,
                 HP_WMI_PROPERTY_BASE_UNITS, HP_WMI_PROPERTY_UNIT_MODIFIER,
                 HP_WMI_PROPERTY_CURRENT_READING}
    THEN "INTEGER" ELSE "STRING"

hp_wmi_hwmon_type_map(wtype) ==
    CASE wtype = HP_WMI_TYPE_TEMPERATURE -> "hwmon_temp"
      [] wtype = HP_WMI_TYPE_VOLTAGE     -> "hwmon_in"
      [] wtype = HP_WMI_TYPE_CURRENT     -> "hwmon_curr"
      [] wtype = HP_WMI_TYPE_AIR_FLOW    -> "hwmon_fan"
      [] OTHER                           -> "hwmon_chip"

HwmonTypes == {"hwmon_temp", "hwmon_in", "hwmon_curr", "hwmon_fan"}

(***************************************************************************)
(* Strings                                                                 *)
(***************************************************************************)
RECURSIVE SkipSpaces(_)
SkipSpaces(s) == IF s # <<>> /\ Head(s) = " " THEN SkipSpaces(Tail(s)) ELSE s

RECURSIVE DropTrailingSpaces(_)
DropTrailingSpaces(s) ==
    IF s # <<>> /\ s[Len(s)] = " " THEN DropTrailingSpaces(SubSeq(s, 1, Len(s) - 1)) ELSE s

\* strim() of the kernel: removes leading and trailing whitespace.
strim(s) == SkipSpaces(DropTrailingSpaces(s))

\* hp_wmi_strdup: a copy of at most HP_WMI_MAX_STR_SIZE - 1 characters.
hp_wmi_strdup(src) == SubSeq(src, 1, Min(Len(src), HP_WMI_MAX_STR_SIZE - 1))

\* The string a decode stores for a string element: rev 2 trims it first.
extract_string(rev, element) ==
    IF rev = 2 THEN hp_wmi_strdup(strim(element.string)) ELSE hp_wmi_strdup(element.string)

(***************************************************************************)
(* check_wobj                                                              *)
(***************************************************************************)
\* The inner loop: i and count after consuming consecutive strings from i + 1.
RECURSIVE check_wobj_lookahead(_, _, _)
check_wobj_lookahead(elements, i, count) ==
    IF i + 1 < Len(elements) /\ elements[i + 2].type = hp_wmi_property_map(HP_WMI_PROPERTY_POSSIBLE_STATES)
    THEN check_wobj_lookahead(elements, i + 1, count + 1)
    ELSE [i |-> i, count |-> count]

\* The outer loop from C index i at property prop; [err, prop, count] at its end.
RECURSIVE check_wobj_loop(_, _, _, _)
check_wobj_loop(elements, i, prop, count) ==
    IF i >= Len(elements) THEN [err |-> 0, prop |-> prop, count |-> count]
    ELSE IF prop > HP_WMI_PROPERTY_CURRENT_READING THEN [err |-> -EINVAL, prop |-> prop, count |-> count]
    ELSE IF elements[i + 1].type # hp_wmi_property_map(prop) THEN [err |-> -EINVAL, prop |-> prop, count |-> count]
    ELSE IF prop = HP_WMI_PROPERTY_CURRENT_STATE
         THEN LET la == check_wobj_lookahead(elements, i, count)
              IN  check_wobj_loop(elements, la.i + 1, HP_WMI_PROPERTY_POSSIBLE_STATES + 1, la.count)
         ELSE check_wobj_loop(elements, i + 1, prop + 1, count)

\* A check_wobj without the final test for an empty PossibleStates array.
check_wobj_allows_no_states(wobj) ==
    IF wobj.type # "PACKAGE" THEN [err |-> -EINVAL, count |-> 0]
    ELSE IF Len(wobj.elements) > HP_WMI_MAX_PROPERTIES THEN [err |-> -EINVAL, count |-> 0]
    ELSE LET r == check_wobj_loop(wobj.elements, 0, HP_WMI_PROPERTY_NAME, 0)
         IN  IF r.err # 0 THEN [err |-> r.err, count |-> 0]
             ELSE IF r.prop <= HP_WMI_PROPERTY_CURRENT_READING
                  THEN [err |-> -EINVAL, count |-> 0]
                  ELSE [err |-> 0, count |-> r.count]

\* A check_wobj without the limit on the number of fields.
check_wobj_any_length(wobj) ==
    IF wobj.type # "PACKAGE" THEN [err |-> -EINVAL, count |-> 0]
    ELSE LET r == check_wobj_loop(wobj.elements, 0, HP_WMI_PROPERTY_NAME, 0)
         IN  IF r.err # 0 THEN [err |-> r.err, count |-> 0]
             ELSE IF r.count = 0 \/ r.prop <= HP_WMI_PROPERTY_CURRENT_READING
                  THEN [err |-> -EINVAL, count |-> 0]
                  ELSE [err |-> 0, count |-> r.count]

\* [err, count]: count is the value written to *possible_states_count (0 when unwritten).
check_wobj(wobj) ==
    IF wobj.type # "PACKAGE" THEN [err |-> -EINVAL, count |-> 0]
    ELSE IF Len(wobj.elements) > HP_WMI_MAX_PROPERTIES THEN [err |-> -EINVAL, count |-> 0]
    ELSE LET r == check_wobj_loop(wobj.elements, 0, HP_WMI_PROPERTY_NAME, 0)
         IN  IF r.err # 0 THEN [err |-> r.err, count |-> 0]
             ELSE IF r.count = 0 \/ r.prop <= HP_WMI_PROPERTY_CURRENT_READING
                  THEN [err |-> -EINVAL, count |-> 0]
                  ELSE [err |-> 0, count |-> r.count]

(***************************************************************************)
(* Sensor predicates, classifier and scaler                                *)
(***************************************************************************)
numeric_sensor_is_connected(nsensor) ==
    nsensor.operational_status # HP_WMI_STATUS_NO_CONTACT

numeric_sensor_has_fault(rev, nsensor) ==
    IF rev = 1
    THEN nsensor.operational_status # HP_WMI_STATUS_OK \/ nsensor.current_reading = 0
    ELSE nsensor.operational_status \in
            {HP_WMI_STATUS_DEGRADED, HP_WMI_STATUS_STRESSED, HP_WMI_STATUS_PREDICTIVE_FAILURE,
             HP_WMI_STATUS_ERROR, HP_WMI_STATUS_NON_RECOVERABLE_ERROR, HP_WMI_STATUS_NO_CONTACT,
             HP_WMI_STATUS_LOST_COMMUNICATION, HP_WMI_STATUS_ABORTED,
             HP_WMI_STATUS_SUPPORTING_ENTITY_IN_ERROR,
             HP_WMI_STATUS_COMPLETED + HP_WMI_STATUS_DEGRADED,
             HP_WMI_STATUS_COMPLETED + HP_WMI_STATUS_ERROR}

\* C integer division: truncation toward zero.
CDiv(a, b) == IF a >= 0 THEN a \div b ELSE -((-a) \div b)

\* A division that drops the fraction.
DIV_ROUND_DOWN(x, d) == CDiv(x, d)

\* DIV_ROUND_CLOSEST(x, d) for a signed x and a positive d.
DIV_ROUND_CLOSEST(x, d) == IF x >= 0 THEN CDiv(x + d \div 2, d) ELSE CDiv(x - d \div 2, d)

milli_kelvin_to_millicelsius(t) == t + ABSOLUTE_ZERO_MILLICELSIUS

RECURSIVE scale_down(_, _, _)
scale_down(val, unit_modifier, target_modifier) ==
    IF unit_modifier < target_modifier
    THEN scale_down(DIV_ROUND_CLOSEST(val, 10), unit_modifier + 1, target_modifier)
    ELSE val

RECURSIVE scale_up(_, _, _)
scale_up(val, unit_modifier, target_modifier) ==
    IF unit_modifier > target_modifier
    THEN IF val > LONG_MAX \div 10 THEN LONG_MAX
         ELSE scale_up(val * 10, unit_modifier - 1, target_modifier)
    ELSE val

scale_numeric_sensor(rev, nsensor) ==
    LET target_modifier == IF nsensor.sensor_type = HP_WMI_TYPE_AIR_FLOW THEN 0 ELSE -3
        v1 == scale_down(nsensor.current_reading, nsensor.unit_modifier, target_modifier)
        v2 == scale_up(v1, Max(nsensor.unit_modifier, target_modifier), target_modifier)
    IN  IF nsensor.sensor_type = HP_WMI_TYPE_TEMPERATURE
        THEN CASE nsensor.base_units = HP_WMI_UNITS_DEGREES_F ->
                    LET f == v2 - 32 * MILLI
                    IN  IF rev = 1
                        THEN (IF f <= LONG_MAX \div 5 THEN CDiv(f * 5, 9) ELSE CDiv(f, 9) * 5)
                        ELSE (IF f <= LONG_MAX \div 5 THEN DIV_ROUND_CLOSEST(f * 5, 9)
                                                     ELSE DIV_ROUND_CLOSEST(f, 9) * 5)
               [] nsensor.base_units = HP_WMI_UNITS_DEGREES_K -> milli_kelvin_to_millicelsius(v2)
               [] OTHER -> v2
        ELSE v2

\* A classifier that looks at SensorType alone.
classify_by_type_only(nsensor) ==
    IF nsensor.sensor_type \in {HP_WMI_TYPE_TEMPERATURE, HP_WMI_TYPE_VOLTAGE,
                                HP_WMI_TYPE_CURRENT, HP_WMI_TYPE_AIR_FLOW}
    THEN nsensor.sensor_type ELSE -EINVAL

\* A classifier that also takes Tachometer / RPM for a fan.
classify_tachometer_as_fan(nsensor) ==
    CASE nsensor.sensor_type = HP_WMI_TYPE_TEMPERATURE
           /\ nsensor.base_units \in {HP_WMI_UNITS_DEGREES_C, HP_WMI_UNITS_DEGREES_F,
                                      HP_WMI_UNITS_DEGREES_K} -> HP_WMI_TYPE_TEMPERATURE
      [] nsensor.sensor_type = HP_WMI_TYPE_VOLTAGE
           /\ nsensor.base_units = HP_WMI_UNITS_VOLTS -> HP_WMI_TYPE_VOLTAGE
      [] nsensor.sensor_type = HP_WMI_TYPE_CURRENT
           /\ nsensor.base_units = HP_WMI_UNITS_AMPS -> HP_WMI_TYPE_CURRENT
      [] nsensor.sensor_type \in {HP_WMI_TYPE_AIR_FLOW, HP_WMI_TYPE_TACHOMETER}
           /\ nsensor.base_units = HP_WMI_UNITS_RPM -> HP_WMI_TYPE_AIR_FLOW
      [] OTHER -> -EINVAL

\* An enum hp_wmi_type value, or -EINVAL for an unsupported pair.
classify_numeric_sensor(nsensor) ==
    CASE nsensor.sensor_type = HP_WMI_TYPE_TEMPERATURE
           /\ nsensor.base_units \in {HP_WMI_UNITS_DEGREES_C, HP_WMI_UNITS_DEGREES_F,
                                      HP_WMI_UNITS_DEGREES_K} -> HP_WMI_TYPE_TEMPERATURE
      [] nsensor.sensor_type = HP_WMI_TYPE_VOLTAGE
           /\ nsensor.base_units = HP_WMI_UNITS_VOLTS -> HP_WMI_TYPE_VOLTAGE
      [] nsensor.sensor_type = HP_WMI_TYPE_CURRENT
           /\ nsensor.base_units = HP_WMI_UNITS_AMPS -> HP_WMI_TYPE_CURRENT
      [] nsensor.sensor_type = HP_WMI_TYPE_AIR_FLOW
           /\ nsensor.base_units = HP_WMI_UNITS_RPM -> HP_WMI_TYPE_AIR_FLOW
      [] OTHER -> -EINVAL

(***************************************************************************)
(* Decoding a WMI object into a numeric sensor                             *)
(***************************************************************************)
\* A zeroed struct hp_wmi_numeric_sensor (devm_kzalloc).
ZeroSensor ==
    [name |-> NullStr, description |-> NullStr, sensor_type |-> 0,
     other_sensor_type |-> NullStr, operational_status |-> 0, current_state |-> NullStr,
     possible_states |-> <<>>, base_units |-> 0, unit_modifier |-> 0,
     current_reading |-> 0, possible_states_count |-> 0]

\* A zeroed struct hp_wmi_info; the zero of enum hwmon_sensor_types is hwmon_chip.
ZeroInfo ==
    [nsensor |-> ZeroSensor, instance |-> 0, is_active |-> FALSE, type |-> "hwmon_chip",
     cached_val |-> 0, lo_val |-> 0, hi_val |-> 0, last_updated |-> 0]

\* The decode loop from property prop at C element index e, with remaining
\* possible states still to store. [err, nsensor].
RECURSIVE populate_loop(_, _, _, _, _, _)
populate_loop(rev, elements, prop, e, remaining, nsensor) ==
    IF prop > HP_WMI_PROPERTY_CURRENT_READING THEN [err |-> 0, nsensor |-> nsensor]
    ELSE
    LET element == elements[e + 1]
        value   == element.integer
        string  == extract_string(rev, element)
    IN  CASE prop = HP_WMI_PROPERTY_NAME ->
               populate_loop(rev, elements, prop + 1, e + 1, remaining,
                             [nsensor EXCEPT !.name = string])
          [] prop = HP_WMI_PROPERTY_DESCRIPTION ->
               populate_loop(rev, elements, prop + 1, e + 1, remaining,
                             [nsensor EXCEPT !.description = string])
          [] prop = HP_WMI_PROPERTY_SENSOR_TYPE ->
               IF value > HP_WMI_TYPE_AIR_FLOW THEN [err |-> -EINVAL, nsensor |-> nsensor]
               ELSE IF value # HP_WMI_TYPE_OTHER
                    THEN populate_loop(rev, elements, prop + 2, e + 2, remaining,
                                       [nsensor EXCEPT !.sensor_type = value])
                    ELSE populate_loop(rev, elements, prop + 1, e + 1, remaining,
                                       [nsensor EXCEPT !.sensor_type = value])
          [] prop = HP_WMI_PROPERTY_OTHER_SENSOR_TYPE ->
               populate_loop(rev, elements, prop + 1, e + 1, remaining,
                             [nsensor EXCEPT !.other_sensor_type = string])
          [] prop = HP_WMI_PROPERTY_OPERATIONAL_STATUS ->
               populate_loop(rev, elements, prop + 1, e + 1, remaining,
                             [nsensor EXCEPT !.operational_status = value])
          [] prop = HP_WMI_PROPERTY_CURRENT_STATE ->
               populate_loop(rev, elements, prop + 1, e + 1, remaining,
                             [nsensor EXCEPT !.current_state = string])
          [] prop = HP_WMI_PROPERTY_POSSIBLE_STATES ->
               populate_loop(rev, elements, IF remaining - 1 # 0 THEN prop ELSE prop + 1,
                             e + 1, remaining - 1,
                             [nsensor EXCEPT !.possible_states = Append(@, string)])
          [] prop = HP_WMI_PROPERTY_BASE_UNITS ->
               populate_loop(rev, elements, prop + 1, e + 1, remaining,
                             [nsensor EXCEPT !.base_units = value])
          [] prop = HP_WMI_PROPERTY_UNIT_MODIFIER ->
               populate_loop(rev, elements, prop + 1, e + 1, remaining,
                             [nsensor EXCEPT !.unit_modifier = value])
          [] prop = HP_WMI_PROPERTY_CURRENT_READING ->
               populate_loop(rev, elements, prop + 1, e + 1, remaining,
                             [nsensor EXCEPT !.current_reading = value])

\* A decode that stores OtherSensorType whatever the SensorType.
populate_numeric_sensor_stores_other(rev, nsensor, wobj) ==
    LET chk == check_wobj(wobj)
    IN  IF chk.err # 0 THEN [err |-> chk.err, nsensor |-> nsensor]
        ELSE populate_loop(rev, wobj.elements, HP_WMI_PROPERTY_NAME, 0, chk.count,
                           [nsensor EXCEPT !.possible_states = <<>>,
                                           !.possible_states_count = chk.count,
                                           !.other_sensor_type =
                                              extract_string(rev, wobj.elements[
                                                 HP_WMI_PROPERTY_OTHER_SENSOR_TYPE + 1])])

\* [err, nsensor]: nsensor is written as far as the decode got.
populate_numeric_sensor_from_wobj(rev, nsensor, wobj) ==
    LET chk == check_wobj(wobj)
    IN  IF chk.err # 0 THEN [err |-> chk.err, nsensor |-> nsensor]
        ELSE populate_loop(rev, wobj.elements, HP_WMI_PROPERTY_NAME, 0, chk.count,
                           [nsensor EXCEPT !.possible_states = <<>>,
                                           !.possible_states_count = chk.count])

\* A refresh that reads BaseUnits again as well.
update_numeric_sensor_rereads_units(rev, nsensor, wobj) ==
    LET elements == wobj.elements
        string   == IF rev = 2 THEN strim(elements[HP_WMI_PROPERTY_CURRENT_STATE + 1].string)
                               ELSE elements[HP_WMI_PROPERTY_CURRENT_STATE + 1].string
        offset   == nsensor.possible_states_count - 1
    IN  [nsensor EXCEPT
           !.operational_status = elements[HP_WMI_PROPERTY_OPERATIONAL_STATUS + 1].integer,
           !.current_state = IF string # nsensor.current_state THEN hp_wmi_strdup(string) ELSE @,
           !.base_units = elements[HP_WMI_PROPERTY_BASE_UNITS + offset + 1].integer,
           !.unit_modifier = elements[HP_WMI_PROPERTY_UNIT_MODIFIER + offset + 1].integer,
           !.current_reading = elements[HP_WMI_PROPERTY_CURRENT_READING + offset + 1].integer]

\* A refresh whose offset into the elements array is one short.
update_numeric_sensor_offset_short(rev, nsensor, wobj) ==
    LET elements == wobj.elements
        string   == IF rev = 2 THEN strim(elements[HP_WMI_PROPERTY_CURRENT_STATE + 1].string)
                               ELSE elements[HP_WMI_PROPERTY_CURRENT_STATE + 1].string
        offset   == nsensor.possible_states_count - 2
    IN  [nsensor EXCEPT
           !.operational_status = elements[HP_WMI_PROPERTY_OPERATIONAL_STATUS + 1].integer,
           !.current_state = IF string # nsensor.current_state THEN hp_wmi_strdup(string) ELSE @,
           !.unit_modifier = elements[HP_WMI_PROPERTY_UNIT_MODIFIER + offset + 1].integer,
           !.current_reading = elements[HP_WMI_PROPERTY_CURRENT_READING + offset + 1].integer]

\* The fungible properties re-read from a freshly polled object; the indices
\* are taken from the possible_states_count recorded at discovery.
update_numeric_sensor_from_wobj(rev, nsensor, wobj) ==
    LET elements == wobj.elements
        string   == IF rev = 2 THEN strim(elements[HP_WMI_PROPERTY_CURRENT_STATE + 1].string)
                               ELSE elements[HP_WMI_PROPERTY_CURRENT_STATE + 1].string
        offset   == nsensor.possible_states_count - 1
    IN  [nsensor EXCEPT
           !.operational_status = elements[HP_WMI_PROPERTY_OPERATIONAL_STATUS + 1].integer,
           !.current_state = IF string # nsensor.current_state THEN hp_wmi_strdup(string) ELSE @,
           !.unit_modifier = elements[HP_WMI_PROPERTY_UNIT_MODIFIER + offset + 1].integer,
           !.current_reading = elements[HP_WMI_PROPERTY_CURRENT_READING + offset + 1].integer]

reset_info_history(info) ==
    IF info.type # "hwmon_fan"
    THEN [info EXCEPT !.lo_val = info.cached_val, !.hi_val = info.cached_val]
    ELSE info

\* interpret_info at time now; rev 2 keeps no history.
interpret_info(rev, info, now) ==
    LET val == scale_numeric_sensor(rev, info.nsensor)
    IN  IF rev = 1 /\ info.type # "hwmon_fan"
        THEN [info EXCEPT !.cached_val = val, !.lo_val = Min(@, val), !.hi_val = Max(@, val),
                          !.last_updated = now]
        ELSE [info EXCEPT !.cached_val = val, !.last_updated = now]

\* time_after_eq: a is at or after b.
time_after_eq(a, b) == a >= b

\* time_after(a, b) on the modelled (non-wrapping) clock.
time_after(a, b) == a > b

\* The freshness test of hp_wmi_update_info.
IsStale(info, now) == time_after(now, info.last_updated + HZ)

(***************************************************************************)
(* Discovery: hp_wmi_sensors_init                                          *)
(***************************************************************************)
\* hp_wmi_get_wobj at discovery: the firmware table fw answers for the
\* instances 0 .. Len(fw) - 1 and returns NULL beyond them.
hp_wmi_get_wobj(table, instance) ==
    IF instance < Len(table) THEN table[instance + 1] ELSE NullObj

AllTypes == HwmonTypes \cup {"hwmon_chip"}

\* A discovery filter that lets every decoded sensor through.
init_filtered_none(rev, nsensor) == FALSE

\* Whether discovery leaves a decoded sensor out of the hwmon channels:
\* rev 1 tests numeric_sensor_has_fault, rev 2 numeric_sensor_is_connected.
init_filtered(rev, nsensor) ==
    IF rev = 1 THEN numeric_sensor_has_fault(rev, nsensor)
               ELSE ~numeric_sensor_is_connected(nsensor)

\* One pass of the discovery loop body for instance i.
\* st = [err, info, channel_count, type_count, active_info].
init_instance(rev, st, i, wobj, now) ==
    LET pop   == populate_numeric_sensor_from_wobj(rev, ZeroSensor, wobj)
        info1 == [ZeroInfo EXCEPT !.instance = i, !.nsensor = pop.nsensor]
        wtype == classify_numeric_sensor(pop.nsensor)
        type  == hp_wmi_hwmon_type_map(wtype)
        info2 == [info1 EXCEPT !.is_active = TRUE, !.type = type,
                               !.lo_val = IF rev = 1 THEN LONG_MAX ELSE @,
                               !.hi_val = IF rev = 1 THEN LONG_MIN ELSE @]
    IN  IF pop.err # 0
        THEN [st EXCEPT !.err = pop.err, !.info = Append(@, info1)]
        ELSE IF init_filtered(rev, pop.nsensor) \/ wtype < 0
        THEN [st EXCEPT !.info = Append(@, info1)]
        ELSE [st EXCEPT !.info = Append(@, interpret_info(rev, info2, now)),
                        !.channel_count[type] = @ + 1,
                        !.type_count = IF st.channel_count[type] = 0 THEN @ + 1 ELSE @,
                        !.active_info = Append(@, i)]

\* A discovery loop that treats a decode error after instance 0 like the end
\* of the table (clears the error and stops).
RECURSIVE init_loop_lenient(_, _, _, _, _)
init_loop_lenient(rev, table, i, st, now) ==
    IF i >= HP_WMI_MAX_INSTANCES THEN [i |-> i, st |-> st]
    ELSE LET wobj == hp_wmi_get_wobj(table, i)
         IN  IF wobj = NullObj THEN [i |-> i, st |-> st]
             ELSE LET st2 == init_instance(rev, st, i, wobj, now)
                  IN  IF st2.err # 0
                      THEN (IF i = 0 THEN [i |-> i, st |-> st2] ELSE [i |-> i, st |-> st])
                      ELSE init_loop_lenient(rev, table, i + 1, st2, now)

\* The discovery loop from instance i; [i, st] when it ends or breaks off.
RECURSIVE init_loop(_, _, _, _, _)
init_loop(rev, table, i, st, now) ==
    IF i >= HP_WMI_MAX_INSTANCES THEN [i |-> i, st |-> st]
    ELSE LET wobj == hp_wmi_get_wobj(table, i)
         IN  IF wobj = NullObj THEN [i |-> i, st |-> st]
             ELSE LET st2 == init_instance(rev, st, i, wobj, now)
                  IN  IF st2.err # 0 THEN [i |-> i, st |-> st2]
                      ELSE init_loop(rev, table, i + 1, st2, now)

\* A closing loop that takes the first free slot of the category instead of
\* counting channel_count down: last channel first, it fills in reverse order.
RECURSIVE fill_info_map_first_free(_, _, _, _, _)
fill_info_map_first_free(map, channel_count, active_info, channel, infos) ==
    IF channel = 0 THEN map
    ELSE LET inst == active_info[channel]
             type == infos[inst + 1].type
             i    == CHOOSE j \in 1..Len(map[type]) :
                        map[type][j] = -1 /\ \A h \in 1..(j - 1) : map[type][h] # -1
         IN  fill_info_map_first_free([map EXCEPT ![type][i] = inst],
                                      channel_count, active_info, channel - 1, infos)

\* The closing loop that fills info_map from active_info, last channel first.
RECURSIVE fill_info_map(_, _, _, _, _)
fill_info_map(map, channel_count, active_info, channel, infos) ==
    IF channel = 0 THEN map
    ELSE LET inst == active_info[channel]
             type == infos[inst + 1].type
             i    == channel_count[type] - 1
         IN  fill_info_map([map EXCEPT ![type][i + 1] = inst],
                           [channel_count EXCEPT ![type] = i],
                           active_info, channel - 1, infos)

\* The driver state a failed probe leaves: nothing is registered.
InitFailed(err) ==
    [err |-> err, count |-> 0, info |-> <<>>, debugfs |-> {}, hwmon |-> FALSE,
     channel_count |-> [t \in AllTypes |-> 0], info_map |-> [t \in AllTypes |-> <<>>]]

\* The loop state before instance 0.
InitState ==
    [err |-> 0, info |-> <<>>, channel_count |-> [t \in AllTypes |-> 0],
     type_count |-> 0, active_info |-> <<>>]

\* channel_count once the chip channel is added: always in rev 1, with a
\* temperature channel only in rev 2.
init_chip_channel(rev, channel_count) ==
    [channel_count EXCEPT
       !["hwmon_chip"] = IF rev = 1 \/ channel_count["hwmon_temp"] # 0 THEN 1 ELSE 0]

\* The info_map arrays as allocated, one slot per channel.
init_alloc_map(cc) ==
    [t \in AllTypes |-> [c \in 1..(IF t = "hwmon_chip" THEN 0 ELSE cc[t]) |-> -1]]

\* hp_wmi_sensors_init after the loop has stopped at instance i in state st.
init_register(rev, i, st, cc) ==
    IF st.err # 0 THEN InitFailed(st.err)
    ELSE IF i = 0 THEN InitFailed(-ENODATA)
    ELSE IF Len(st.active_info) = 0
    THEN [err |-> 0, count |-> i, info |-> st.info, debugfs |-> 0..(i - 1),
          hwmon |-> FALSE, channel_count |-> [t \in AllTypes |-> 0],
          info_map |-> [t \in AllTypes |-> <<>>]]
    ELSE [err |-> 0, count |-> i, info |-> st.info, debugfs |-> 0..(i - 1),
          hwmon |-> TRUE, channel_count |-> cc,
          info_map |-> fill_info_map(init_alloc_map(cc), cc, st.active_info,
                                     Len(st.active_info), st.info)]

init_after_loop(rev, scan) ==
    init_register(rev, scan.i, scan.st, init_chip_channel(rev, scan.st.channel_count))

\* hp_wmi_sensors_init: the driver state after discovery over the firmware table.
\* info is indexed by instance + 1, info_map[type] by channel + 1 and holds
\* instance numbers; debugfs is the set of instances given a debugfs directory.
hp_wmi_sensors_init(rev, table, now) ==
    init_after_loop(rev, init_loop(rev, table, 0, InitState, now))

(***************************************************************************)
(* Firmware objects the model draws from                                   *)
(***************************************************************************)
SensorName == <<"s", " ">>
StateNames == << <<"n">>, <<"c">> >>

NumericWobj(sensor_type, units, status, reading) ==
    MkWobj(SensorName, sensor_type, <<"o">>, status, <<"n">>, StateNames, units, 0, reading)

\* (SensorType, BaseUnits) pairs: three supported pairs and an unsupported
\* pair of known codes.
TypeUnits ==
    { <<HP_WMI_TYPE_TEMPERATURE, HP_WMI_UNITS_DEGREES_C>>,
      <<HP_WMI_TYPE_VOLTAGE, HP_WMI_UNITS_VOLTS>>,
      <<HP_WMI_TYPE_AIR_FLOW, HP_WMI_UNITS_RPM>>,
      <<HP_WMI_TYPE_TEMPERATURE, HP_WMI_UNITS_VOLTS>> }

\* (OperationalStatus, CurrentReading) pairs every pair above is combined with.
StatusReadings ==
    { <<HP_WMI_STATUS_OK, 25>>, <<HP_WMI_STATUS_NO_CONTACT, 25>> }

\* Objects check_wobj rejects: no PossibleStates, and a non-package.
MalformedWobjs ==
    { Package(<<StrElem(SensorName), StrElem(<<"d">>), IntElem(HP_WMI_TYPE_TEMPERATURE),
                StrElem(<<"o">>), IntElem(HP_WMI_STATUS_OK), StrElem(<<"n">>),
                IntElem(HP_WMI_UNITS_DEGREES_C), IntElem(0), IntElem(25)>>),
      [type |-> "BUFFER", elements |-> <<>>] }

\* The objects discovery is run on: every pair above, connected or not, two
\* Degraded sensors, a SensorType above Air Flow, SensorType Other, a zero
\* reading, and the malformed ones.
DiscoveryWobjs ==
    { NumericWobj(tu[1], tu[2], sr[1], sr[2]) : tu \in TypeUnits, sr \in StatusReadings }
    \cup { NumericWobj(HP_WMI_TYPE_TEMPERATURE, HP_WMI_UNITS_DEGREES_C, HP_WMI_STATUS_DEGRADED, 25),
           NumericWobj(HP_WMI_TYPE_AIR_FLOW, HP_WMI_UNITS_RPM, HP_WMI_STATUS_DEGRADED, 25),
           NumericWobj(HP_WMI_TYPE_AIR_FLOW + 1, HP_WMI_UNITS_DEGREES_C, HP_WMI_STATUS_OK, 25),
           NumericWobj(HP_WMI_TYPE_OTHER, HP_WMI_UNITS_DEGREES_C, HP_WMI_STATUS_OK, 25),
           NumericWobj(HP_WMI_TYPE_TEMPERATURE, HP_WMI_UNITS_DEGREES_C, HP_WMI_STATUS_OK, 0) }
    \cup MalformedWobjs

\* A field of the given ACPI type; every integer field holds 2 (Temperature,
\* OK, Degrees C).
FieldOfType(ty) ==
    CASE ty = "INTEGER" -> IntElem(HP_WMI_TYPE_TEMPERATURE)
      [] ty = "STRING"  -> StrElem(<<"s">>)
      [] OTHER          -> [type |-> ty, integer |-> 0, string |-> <<>>]

\* The field types of a record with n PossibleStates strings and t trailing
\* integers after them.
ShapeTypes(n, t) ==
    <<"STRING", "STRING", "INTEGER", "STRING", "INTEGER", "STRING">>
    \o [k \in 1..n |-> "STRING"] \o [k \in 1..t |-> "INTEGER"]

WobjOfTypes(types) == Package([k \in 1..Len(types) |-> FieldOfType(types[k])])

\* Records by shape: every count of PossibleStates and of trailing integers
\* within the bounds, a two-state record with the type of one field
\* replaced, and a buffer in place of the package.
ShapeWobjs ==
    { WobjOfTypes(ShapeTypes(n, t)) : n \in 0..MaxStates, t \in 0..MaxTrail }
    \cup { WobjOfTypes([ShapeTypes(2, 3) EXCEPT ![k] = ty]) :
              k \in 1..11, ty \in {"INTEGER", "STRING", "BUFFER"} }
    \cup { [type |-> "BUFFER", elements |-> WobjOfTypes(ShapeTypes(2, 3)).elements] }

\* Healthy records of every (SensorType, BaseUnits) pair within the bounds.
PairWobjs ==
    { NumericWobj(ty, un, HP_WMI_STATUS_OK, 25) : ty \in 0..MaxTypeCode, un \in 0..MaxUnitCode }

\* CurrentReading and UnitModifier values the scaler is run on: readings
\* below, at and above half a decade (4, 5, 15, 25), readings around 32 (the
\* Fahrenheit offset), one that rounds twice (445) and a large one;
\* modifiers below, at and above the target, up to one that overflows a
\* 64-bit long.
ScaleReadings == {0, 1, 4, 5, 15, 25, 31, 32, 33, 445, 500001}
ScaleModifiers == {-5, -4, -3, 0, 3, 17}

\* Healthy records of every supported category and base unit, over the
\* readings and modifiers above.
ScaleWobjs ==
    { MkWobj(SensorName, tu[1], <<"o">>, HP_WMI_STATUS_OK, <<"n">>, StateNames, tu[2], m, v) :
        tu \in { <<HP_WMI_TYPE_TEMPERATURE, HP_WMI_UNITS_DEGREES_C>>,
                 <<HP_WMI_TYPE_TEMPERATURE, HP_WMI_UNITS_DEGREES_F>>,
                 <<HP_WMI_TYPE_TEMPERATURE, HP_WMI_UNITS_DEGREES_K>>,
                 <<HP_WMI_TYPE_VOLTAGE, HP_WMI_UNITS_VOLTS>>,
                 <<HP_WMI_TYPE_AIR_FLOW, HP_WMI_UNITS_RPM>> },
        m \in ScaleModifiers, v \in ScaleReadings }

\* Firmware tables of 0 .. MaxInst instances.
FirmwareTables == UNION { [1..n -> DiscoveryWobjs] : n \in 0..MaxInst }

\* The firmware table the running driver is started on: a No-Contact fan
\* (instance 0, left out of hwmon) and Temperature/Celsius (instance 1).
RuntimeTables ==
    { << NumericWobj(HP_WMI_TYPE_AIR_FLOW, HP_WMI_UNITS_RPM, HP_WMI_STATUS_NO_CONTACT, 25),
         NumericWobj(HP_WMI_TYPE_TEMPERATURE, HP_WMI_UNITS_DEGREES_C, HP_WMI_STATUS_OK, 25) >> }

\* (OperationalStatus, CurrentReading) pairs a later poll may report.
PollStatusReadings == { <<HP_WMI_STATUS_OK, 25>>, <<HP_WMI_STATUS_DEGRADED, 30>> }

\* What hp_wmi_get_wobj may return for an instance after discovery: NULL, or
\* the instance's object with the status and reading of the moment.
PollWobjs(table, instance) ==
    {NullObj} \cup
    { [table[instance + 1] EXCEPT
         !.elements[HP_WMI_PROPERTY_OPERATIONAL_STATUS + 1] = IntElem(sr[1]),
         !.elements[Len(table[instance + 1].elements)] = IntElem(sr[2])] :
      sr \in PollStatusReadings }

\* The record with one more PossibleStates string before BaseUnits.
Reshaped(wobj) ==
    Package(SubSeq(wobj.elements, 1, Len(wobj.elements) - 3)
            \o <<StrElem(<<"x">>)>>
            \o SubSeq(wobj.elements, Len(wobj.elements) - 2, Len(wobj.elements)))

\* What hp_wmi_get_wobj may return to a lone reader: NULL, the instance's
\* object with any status code and a zero or non-zero reading, and the
\* object with a PossibleStates count other than the one seen at discovery.
WidePollWobjs(table, instance) ==
    {NullObj} \cup
    { [table[instance + 1] EXCEPT
         !.elements[HP_WMI_PROPERTY_OPERATIONAL_STATUS + 1] = IntElem(st),
         !.elements[Len(table[instance + 1].elements)] = IntElem(rd)] :
      st \in 0..MaxStatusCode, rd \in {0, 25} }
    \cup {Reshaped(table[instance + 1])}

\* The firmware tables a lone reader runs on: one healthy Temperature or Fan
\* sensor.
ReaderTables ==
    { << NumericWobj(HP_WMI_TYPE_TEMPERATURE, HP_WMI_UNITS_DEGREES_C, HP_WMI_STATUS_OK, 25) >>,
      << NumericWobj(HP_WMI_TYPE_AIR_FLOW, HP_WMI_UNITS_RPM, HP_WMI_STATUS_OK, 25) >> }

\* CurrentState strings a later poll may report.
PollStates == { <<"n">>, <<"h">> }

\* What hp_wmi_get_wobj may return to readers that race: the instance's
\* object with a good or degraded status, a zero or non-zero reading and
\* either CurrentState string.
TailPollWobjs(table, instance) ==
    { [table[instance + 1] EXCEPT
         !.elements[HP_WMI_PROPERTY_OPERATIONAL_STATUS + 1] = IntElem(st),
         !.elements[HP_WMI_PROPERTY_CURRENT_STATE + 1] = StrElem(cs),
         !.elements[Len(table[instance + 1].elements)] = IntElem(rd)] :
      st \in {HP_WMI_STATUS_OK, HP_WMI_STATUS_DEGRADED}, rd \in {0, 25}, cs \in PollStates }

\* The CurrentReading of the polled records that differ from the discovered
\* one in every property.
ForeignReading == 77

\* What hp_wmi_get_wobj may return to a reader when the firmware's object
\* has changed: NULL, the instance's object with the status and reading of
\* the moment, and an object with another Name, Description, SensorType,
\* OtherSensorType, CurrentState, PossibleStates, BaseUnits and UnitModifier.
FramePollWobjs(table, instance) ==
    PollWobjs(table, instance)
    \cup { [MkWobj(<<"x">>, HP_WMI_TYPE_VOLTAGE, <<"y">>, st, <<"h">>, << <<"a">>, <<"b">> >>,
                   HP_WMI_UNITS_VOLTS, -1, ForeignReading)
              EXCEPT !.elements[HP_WMI_PROPERTY_DESCRIPTION + 1] = StrElem(<<"e">>)] :
           st \in {HP_WMI_STATUS_OK, HP_WMI_STATUS_DEGRADED} }

\* A record with n PossibleStates strings whose integer fields all differ.
CountedWobj(n, sensor_type, status, units, modifier, reading) ==
    MkWobj(SensorName, sensor_type, <<"o">>, status, <<"n">>, [k \in 1..n |-> <<"c">>],
           units, modifier, reading)

\* The records with n PossibleStates strings the firmware may hold:
\* SensorType Other or Temperature, and two settings of the other integers.
CountedWobjs(n) ==
    { CountedWobj(n, ty, v[1], v[2], v[3], v[4]) :
        ty \in {HP_WMI_TYPE_OTHER, HP_WMI_TYPE_TEMPERATURE},
        v \in { <<HP_WMI_STATUS_OK, HP_WMI_UNITS_DEGREES_C, 0, 25>>,
                <<HP_WMI_STATUS_DEGRADED, HP_WMI_UNITS_DEGREES_K, -1, 44>> } }

\* The values a lone thread writes to reset_history.
HistoryVals == {-1, 0, 1, 2}

\* What hp_wmi_get_wobj may return to that thread: as PollWobjs, and the
\* instance's object with a reading below the discovered one.
HistoryPollWobjs(table, instance) ==
    PollWobjs(table, instance)
    \cup { [table[instance + 1] EXCEPT
              !.elements[Len(table[instance + 1].elements)] = IntElem(20)] }

\* Values written to update_interval: disable, the least valid period, and
\* one below it.
IntervalVals == {0, HP_WMI_MIN_UPDATE_INTERVAL, HP_WMI_MIN_UPDATE_INTERVAL - 1}

\* The values a lone writer writes: those, the greatest valid period, one
\* above it, and a negative value.
WriteVals ==
    IntervalVals \cup {-1, HP_WMI_MAX_UPDATE_INTERVAL, HP_WMI_MAX_UPDATE_INTERVAL + 1}

(***************************************************************************)
(* State                                                                   *)
(***************************************************************************)
VARIABLES
    rev,             \* which revision of the driver runs (1 or 2)
    fw,              \* the firmware's table of sensor objects at discovery
    phase,           \* "unbound" before probe, then "bound" or "failed"
    err,             \* the value hp_wmi_sensors_init returned
    count,           \* state->count
    info,            \* state->info[], indexed by instance + 1
    info_map,        \* state->info_map[type][], instance numbers by channel + 1
    channel_count,   \* state->channel_count[]
    debugfs,         \* instances that have a debugfs directory
    hwmon,           \* whether the hwmon device is registered
    jiffies,         \* the kernel clock
    lock,            \* owner of state->lock
    update_interval, \* state->refresh_task.update_interval
    dwork,           \* state->refresh_task.dwork: pending (with its due time),
                     \* running, and the thread cancelling it
    thr,             \* per foreground thread: the call it is in
    task,            \* the worker running hp_wmi_sensors_refresh_task
    last_ret         \* what the step just taken returned to a foreground
                     \* caller; NoRet when the step was not a return

vars == <<rev, fw, phase, err, count, info, info_map, channel_count, debugfs, hwmon,
          jiffies, lock, update_interval, dwork, thr, task, last_ret>>

driver == <<rev, fw, phase, err, count, info_map, channel_count, debugfs, hwmon>>

Threads == {"t1", "t2"}
NoOwner == "none"
Worker == "kworker"

Idle == [op |-> "idle", pc |-> "-", inst |-> 0, val |-> 0, err |-> 0]
TaskIdle == [pc |-> "-", i |-> 0, update_interval |-> 0, err |-> 0]
IdleWork == [pending |-> FALSE, due |-> 0, running |-> FALSE, canceling |-> NoOwner]
NoRet == [op |-> "idle", inst |-> 0, attr |-> "-", ret |-> 0, has_out |-> FALSE,
          out |-> 0, str |-> <<>>, val |-> 0]

\* The state right after devm_kzalloc and mutex_init in hp_wmi_sensors_probe.
Unbound(r, table) ==
    /\ rev = r
    /\ fw = table
    /\ phase = "unbound"
    /\ err = 0
    /\ count = 0
    /\ info = <<>>
    /\ info_map = [t \in AllTypes |-> <<>>]
    /\ channel_count = [t \in AllTypes |-> 0]
    /\ debugfs = {}
    /\ hwmon = FALSE
    /\ jiffies = 0
    /\ lock = NoOwner
    /\ update_interval = 0
    /\ dwork = IdleWork
    /\ thr = [t \in Threads |-> Idle]
    /\ task = TaskIdle
    /\ last_ret = NoRet

\* The state hp_wmi_sensors_probe leaves behind for firmware table `table`.
Probed(r, table) ==
    \E d \in {hp_wmi_sensors_init(r, table, 0)} :
        /\ rev = r
        /\ fw = table
        /\ phase = IF d.err = 0 THEN "bound" ELSE "failed"
        /\ err = d.err
        /\ count = d.count
        /\ info = d.info
        /\ info_map = d.info_map
        /\ channel_count = d.channel_count
        /\ debugfs = d.debugfs
        /\ hwmon = d.hwmon
        /\ jiffies = 0
        /\ lock = NoOwner
        /\ update_interval = 0
        /\ dwork = IdleWork
        /\ thr = [t \in Threads |-> Idle]
        /\ task = TaskIdle
        /\ last_ret = NoRet

(***************************************************************************)
(* Discovery as a step: hp_wmi_sensors_probe                               *)
(***************************************************************************)
InitDiscovery == \E r \in {1, 2}, table \in FirmwareTables : Unbound(r, table)

hp_wmi_sensors_probe ==
    /\ phase = "unbound"
    /\ \E d \in {hp_wmi_sensors_init(rev, fw, jiffies)} :
           /\ phase' = IF d.err = 0 THEN "bound" ELSE "failed"
           /\ err' = d.err
           /\ count' = d.count
           /\ info' = d.info
           /\ info_map' = d.info_map
           /\ channel_count' = d.channel_count
           /\ debugfs' = d.debugfs
           /\ hwmon' = d.hwmon
    /\ UNCHANGED <<rev, fw, jiffies, lock, update_interval, dwork, thr, task, last_ret>>

NextDiscovery == hp_wmi_sensors_probe

SpecInit == InitDiscovery /\ [][NextDiscovery]_vars

\* Discovery of a single record, over every record in RecordWobjs.
RecordWobjs == ShapeWobjs \cup PairWobjs \cup ScaleWobjs

InitRecord == \E r \in {1, 2}, wobj \in RecordWobjs : Unbound(r, <<wobj>>)

SpecRecord == InitRecord /\ [][NextDiscovery]_vars

(***************************************************************************)
(* Run time: the handlers of a bound driver                                *)
(***************************************************************************)
\* mutex_lock(&state->lock) only returns to a caller when the lock is free.
mutex_unheld(owner) == TRUE
mutex_available(owner) == owner = NoOwner

\* A stale branch that stamps the entry even when the query returned nothing.
hp_wmi_update_info_stamps_failure(r, info_s, wobj, now) ==
    IF wobj = NullObj THEN [ret |-> -EIO, info |-> [info_s EXCEPT !.last_updated = now]]
    ELSE [ret |-> 0,
          info |-> interpret_info(r, [info_s EXCEPT !.nsensor =
                       update_numeric_sensor_from_wobj(r, @, wobj)], now)]

\* A stale branch that classifies the sensor again after each poll.
hp_wmi_update_info_reclassifies(r, info_s, wobj, now) ==
    IF wobj = NullObj THEN [ret |-> -EIO, info |-> info_s]
    ELSE LET ns    == update_numeric_sensor_from_wobj(r, info_s.nsensor, wobj)
             wtype == classify_numeric_sensor(ns)
             live  == ~init_filtered(r, ns) /\ wtype >= 0
         IN  [ret |-> 0,
              info |-> interpret_info(r, [info_s EXCEPT !.nsensor = ns,
                           !.is_active = live,
                           !.type = IF live THEN hp_wmi_hwmon_type_map(wtype) ELSE @], now)]

\* The stale branch of hp_wmi_update_info, given what hp_wmi_get_wobj
\* returned: [ret, info].
hp_wmi_update_info(r, info_s, wobj, now) ==
    IF wobj = NullObj THEN [ret |-> -EIO, info |-> info_s]
    ELSE [ret |-> 0,
          info |-> interpret_info(r, [info_s EXCEPT !.nsensor =
                       update_numeric_sensor_from_wobj(r, @, wobj)], now)]

\* The attributes hwmon offers to read on a channel of a type.
hp_wmi_hwmon_attributes(r, type) ==
    {"input"}
    \cup (IF type \in {"hwmon_temp", "hwmon_fan"} THEN {"fault"} ELSE {})
    \cup (IF r = 1 /\ type \in {"hwmon_temp", "hwmon_in", "hwmon_curr"}
          THEN {"lowest", "highest"} ELSE {})

\* The value hp_wmi_hwmon_read stores in *val.
hp_wmi_hwmon_read_val(r, info_s, attr) ==
    CASE attr = "fault"   -> (IF numeric_sensor_has_fault(r, info_s.nsensor) THEN 1 ELSE 0)
      [] attr = "lowest"  -> info_s.lo_val
      [] attr = "highest" -> info_s.hi_val
      [] OTHER            -> info_s.cached_val

\* The debugfs files served by fungible_show with a numeric or string body.
FungibleProps == {"operational_status", "current_state", "unit_modifier", "current_reading"}

\* What fungible_show prints: [out, str].
fungible_show_val(nsensor, prop) ==
    CASE prop = "operational_status" -> [out |-> nsensor.operational_status, str |-> <<>>]
      [] prop = "current_state"      -> [out |-> 0, str |-> nsensor.current_state]
      [] prop = "unit_modifier"      -> [out |-> nsensor.unit_modifier, str |-> <<>>]
      [] OTHER                       -> [out |-> nsensor.current_reading, str |-> <<>>]

msecs_to_jiffies(ms) == (ms * HZ + MILLI - 1) \div MILLI

\* schedule_delayed_work: queues the work unless it is already pending or is
\* being cancelled.
schedule_delayed_work(d, delay, now) ==
    IF d.pending \/ d.canceling # NoOwner THEN d
    ELSE [d EXCEPT !.pending = TRUE, !.due = now + delay]

\* The test the refresh task makes on hp_wmi_update_info's result to decide
\* that it disables itself.
refresh_task_disables(e) == e = 0

Return(t, r) ==
    /\ thr' = [thr EXCEPT ![t] = Idle]
    /\ last_ret' = r

\* hwmon or debugfs read of instance inst up to the freshness test of
\* hp_wmi_update_info; rev 1 takes state->lock first.
ReadBegin(t, op, inst) ==
    /\ phase = "bound"
    /\ thr[t] = Idle
    /\ rev = 1 => mutex_available(lock)
    /\ LET stale == IsStale(info[inst + 1], jiffies)
       IN  /\ thr' = [thr EXCEPT ![t] =
                        [op |-> op, inst |-> inst, val |-> 0, err |-> 0,
                         pc |-> IF ~stale THEN "ret"
                                ELSE IF rev = 1 THEN "query" ELSE "lock"]]
           /\ lock' = IF rev = 1 /\ stale THEN t ELSE lock
    /\ last_ret' = NoRet
    /\ UNCHANGED <<driver, info, jiffies, update_interval, dwork, task>>

hp_wmi_hwmon_read(t) ==
    /\ hwmon
    /\ \E type \in HwmonTypes : \E channel \in 1..Len(info_map[type]) :
           ReadBegin(t, "hwmon_read", info_map[type][channel])

fungible_show(t) ==
    \E inst \in debugfs : ReadBegin(t, "fungible_show", inst)

\* rev 2: mutex_lock inside hp_wmi_update_info, after the freshness test.
update_info_lock(t) ==
    /\ thr[t].pc = "lock"
    /\ thr[t].op \in {"hwmon_read", "fungible_show"}
    /\ mutex_available(lock)
    /\ lock' = t
    /\ thr' = [thr EXCEPT ![t].pc = "query"]
    /\ last_ret' = NoRet
    /\ UNCHANGED <<driver, info, jiffies, update_interval, dwork, task>>

\* hp_wmi_get_wobj returns to a foreground reader; the rest of the stale
\* branch and the unlock that follows it.
update_info_query_from(t, wobjs) ==
    /\ thr[t].pc = "query"
    /\ \E wobj \in wobjs :
         \E u \in {hp_wmi_update_info(rev, info[thr[t].inst + 1], wobj, jiffies)} :
           /\ info' = [info EXCEPT ![thr[t].inst + 1] = u.info]
           /\ thr' = [thr EXCEPT ![t].pc = "ret", ![t].err = u.ret]
    /\ lock' = NoOwner
    /\ last_ret' = NoRet
    /\ UNCHANGED <<driver, jiffies, update_interval, dwork, task>>

update_info_query(t) == update_info_query_from(t, PollWobjs(fw, thr[t].inst))

\* The tail of hp_wmi_hwmon_read / fungible_show after the lock is dropped.
read_return(t) ==
    /\ thr[t].pc = "ret"
    /\ LET i_s == info[thr[t].inst + 1]
           base == [NoRet EXCEPT !.op = thr[t].op, !.inst = thr[t].inst]
       IN  IF thr[t].err # 0
           THEN Return(t, [base EXCEPT !.ret = thr[t].err])
           ELSE IF thr[t].op = "hwmon_read"
           THEN \E attr \in hp_wmi_hwmon_attributes(rev, i_s.type) :
                    Return(t, [base EXCEPT !.attr = attr, !.has_out = TRUE,
                                           !.out = hp_wmi_hwmon_read_val(rev, i_s, attr)])
           ELSE \E prop \in FungibleProps :
                    \E v \in {fungible_show_val(i_s.nsensor, prop)} :
                        Return(t, [base EXCEPT !.attr = prop, !.has_out = TRUE,
                                               !.out = v.out, !.str = v.str])
    /\ UNCHANGED <<driver, info, jiffies, lock, update_interval, dwork, task>>

\* rev 1: hwmon read of the chip's update_interval (no lock taken).
hp_wmi_hwmon_read_chip(t) ==
    /\ phase = "bound" /\ hwmon /\ rev = 1
    /\ thr[t] = Idle
    /\ last_ret' = [NoRet EXCEPT !.op = "chip_read", !.attr = "update_interval",
                                 !.has_out = TRUE, !.out = update_interval]
    /\ UNCHANGED <<driver, info, jiffies, lock, update_interval, dwork, thr, task>>

ResetVals == {0, 1}

\* A channel reset_history write that does not take state->lock.
hp_wmi_hwmon_write_unlocked(t) ==
    /\ phase = "bound" /\ hwmon /\ rev = 1
    /\ thr[t] = Idle
    /\ \E type \in {"hwmon_temp", "hwmon_curr", "hwmon_in"}, val \in ResetVals :
         \E channel \in 1..Len(info_map[type]) :
           LET inst == info_map[type][channel]
               base == [NoRet EXCEPT !.op = "reset_history", !.inst = inst, !.val = val]
           IN  IF val # 1
               THEN /\ last_ret' = [base EXCEPT !.ret = -EINVAL]
                    /\ UNCHANGED info
               ELSE /\ info' = [info EXCEPT ![inst + 1] = reset_info_history(@)]
                    /\ last_ret' = base
    /\ UNCHANGED <<driver, jiffies, lock, update_interval, dwork, thr, task>>

\* An accepted channel reset_history write that resets only the lowest value.
hp_wmi_hwmon_write_val_resets_lowest(t, val) ==
    /\ phase = "bound" /\ hwmon /\ rev = 1
    /\ thr[t] = Idle
    /\ \E type \in {"hwmon_temp", "hwmon_curr", "hwmon_in"} :
         \E channel \in 1..Len(info_map[type]) :
           LET inst == info_map[type][channel]
               base == [NoRet EXCEPT !.op = "reset_history", !.inst = inst, !.val = val]
           IN  IF val # 1
               THEN /\ last_ret' = [base EXCEPT !.ret = -EINVAL]
                    /\ UNCHANGED info
               ELSE /\ mutex_available(lock)
                    /\ info' = [info EXCEPT ![inst + 1].lo_val = info[inst + 1].cached_val]
                    /\ last_ret' = base
    /\ UNCHANGED <<driver, jiffies, lock, update_interval, dwork, thr, task>>

\* rev 1: hp_wmi_hwmon_write of val to a channel's reset_history.
hp_wmi_hwmon_write_val(t, val) ==
    /\ phase = "bound" /\ hwmon /\ rev = 1
    /\ thr[t] = Idle
    /\ \E type \in {"hwmon_temp", "hwmon_curr", "hwmon_in"} :
         \E channel \in 1..Len(info_map[type]) :
           LET inst == info_map[type][channel]
               base == [NoRet EXCEPT !.op = "reset_history", !.inst = inst, !.val = val]
           IN  IF val # 1
               THEN /\ last_ret' = [base EXCEPT !.ret = -EINVAL]
                    /\ UNCHANGED info
               ELSE /\ mutex_available(lock)
                    /\ info' = [info EXCEPT ![inst + 1] = reset_info_history(@)]
                    /\ last_ret' = base
    /\ UNCHANGED <<driver, jiffies, lock, update_interval, dwork, thr, task>>

hp_wmi_hwmon_write(t) == \E val \in ResetVals : hp_wmi_hwmon_write_val(t, val)

\* rev 1: hp_wmi_hwmon_chip_write of val to <type>_reset_history.
chip_write_reset_history_val(t, val) ==
    /\ phase = "bound" /\ hwmon /\ rev = 1
    /\ thr[t] = Idle
    /\ \E type \in {"hwmon_temp", "hwmon_curr", "hwmon_in"} :
           LET base == [NoRet EXCEPT !.op = "chip_reset_history", !.attr = type, !.val = val]
               targets == {info_map[type][c] : c \in 1..channel_count[type]}
           IN  /\ channel_count[type] > 0
               /\ IF val # 1
                  THEN /\ last_ret' = [base EXCEPT !.ret = -EINVAL]
                       /\ UNCHANGED info
                  ELSE /\ mutex_available(lock)
                       /\ info' = [k \in DOMAIN info |->
                                     IF (k - 1) \in targets
                                     THEN reset_info_history(info[k]) ELSE info[k]]
                       /\ last_ret' = base
    /\ UNCHANGED <<driver, jiffies, lock, update_interval, dwork, thr, task>>

chip_write_reset_history(t) == \E val \in ResetVals : chip_write_reset_history_val(t, val)

\* An update_interval write that takes the work off the queue before it
\* checks the range.
chip_write_update_interval_cancels_first(t, val) ==
    /\ phase = "bound" /\ hwmon /\ rev = 1
    /\ thr[t] = Idle
    /\ IF val # 0 /\ (val < HP_WMI_MIN_UPDATE_INTERVAL \/ val > HP_WMI_MAX_UPDATE_INTERVAL)
       THEN /\ ~dwork.running /\ dwork.canceling = NoOwner
            /\ dwork' = [dwork EXCEPT !.pending = FALSE]
            /\ last_ret' = [NoRet EXCEPT !.op = "update_interval", !.ret = -ERANGE,
                                          !.val = val]
            /\ UNCHANGED thr
       ELSE /\ dwork.canceling = NoOwner
            /\ dwork' = [dwork EXCEPT !.pending = FALSE, !.canceling = t]
            /\ thr' = [thr EXCEPT ![t] = [op |-> "update_interval", pc |-> "cancel_wait",
                                          inst |-> 0, val |-> val, err |-> 0]]
            /\ last_ret' = NoRet
    /\ UNCHANGED <<driver, info, jiffies, lock, update_interval, task>>

\* An update_interval write that takes state->lock before it cancels the
\* work.
chip_write_update_interval_locks_first(t, val) ==
    /\ phase = "bound" /\ hwmon /\ rev = 1
    /\ thr[t] = Idle
    /\ IF val # 0 /\ (val < HP_WMI_MIN_UPDATE_INTERVAL \/ val > HP_WMI_MAX_UPDATE_INTERVAL)
       THEN /\ last_ret' = [NoRet EXCEPT !.op = "update_interval", !.ret = -ERANGE,
                                          !.val = val]
            /\ UNCHANGED <<thr, dwork, lock>>
       ELSE /\ dwork.canceling = NoOwner
            /\ mutex_available(lock)
            /\ lock' = t
            /\ dwork' = [dwork EXCEPT !.pending = FALSE, !.canceling = t]
            /\ thr' = [thr EXCEPT ![t] = [op |-> "update_interval", pc |-> "cancel_wait",
                                          inst |-> 0, val |-> val, err |-> 0]]
            /\ last_ret' = NoRet
    /\ UNCHANGED <<driver, info, jiffies, update_interval, task>>

\* rev 1: hp_wmi_hwmon_chip_write of val to update_interval, up to the point
\* where cancel_delayed_work_sync has taken the work off the queue.
chip_write_update_interval_val(t, val) ==
    /\ phase = "bound" /\ hwmon /\ rev = 1
    /\ thr[t] = Idle
    /\ IF val # 0 /\ (val < HP_WMI_MIN_UPDATE_INTERVAL \/ val > HP_WMI_MAX_UPDATE_INTERVAL)
       THEN /\ last_ret' = [NoRet EXCEPT !.op = "update_interval", !.ret = -ERANGE,
                                          !.val = val]
            /\ UNCHANGED <<thr, dwork>>
       ELSE /\ dwork.canceling = NoOwner
            /\ dwork' = [dwork EXCEPT !.pending = FALSE, !.canceling = t]
            /\ thr' = [thr EXCEPT ![t] = [op |-> "update_interval", pc |-> "cancel_wait",
                                          inst |-> 0, val |-> val, err |-> 0]]
            /\ last_ret' = NoRet
    /\ UNCHANGED <<driver, info, jiffies, lock, update_interval, task>>

chip_write_update_interval(t) ==
    \E val \in IntervalVals : chip_write_update_interval_val(t, val)

\* cancel_delayed_work_sync returns once no run of the work is in progress.
cancel_delayed_work_sync_return(t) ==
    /\ thr[t].pc = "cancel_wait"
    /\ ~dwork.running
    /\ dwork' = [dwork EXCEPT !.canceling = NoOwner]
    /\ thr' = [thr EXCEPT ![t].pc = "set"]
    /\ last_ret' = NoRet
    /\ UNCHANGED <<driver, info, jiffies, lock, update_interval, task>>

\* The locked section of the update_interval write, and its return.
chip_write_set_interval(t) ==
    /\ thr[t].pc = "set"
    /\ mutex_available(lock)
    /\ update_interval' = thr[t].val
    /\ dwork' = IF thr[t].val # 0 THEN schedule_delayed_work(dwork, 0, jiffies) ELSE dwork
    /\ Return(t, [NoRet EXCEPT !.op = "update_interval", !.val = thr[t].val])
    /\ UNCHANGED <<driver, info, jiffies, lock, task>>

\* The workqueue starts hp_wmi_sensors_refresh_task: the work is no longer
\* pending, and the function reads update_interval before it takes the lock.
refresh_task_start ==
    /\ dwork.pending /\ ~dwork.running /\ jiffies >= dwork.due
    /\ dwork' = [dwork EXCEPT !.pending = FALSE, !.running = TRUE]
    /\ task' = [pc |-> "lock", i |-> 0, update_interval |-> update_interval, err |-> 0]
    /\ last_ret' = NoRet
    /\ UNCHANGED <<driver, info, jiffies, lock, update_interval, thr>>

refresh_task_lock ==
    /\ task.pc = "lock"
    /\ mutex_available(lock)
    /\ lock' = Worker
    /\ task' = [task EXCEPT !.pc = "loop"]
    /\ last_ret' = NoRet
    /\ UNCHANGED <<driver, info, jiffies, update_interval, dwork, thr>>

\* One turn of the for loop up to the call of hp_wmi_update_info, or the
\* code after the loop.
refresh_task_loop ==
    /\ task.pc = "loop"
    /\ IF task.i >= count
       THEN /\ dwork' = [schedule_delayed_work(dwork, msecs_to_jiffies(task.update_interval),
                                               jiffies) EXCEPT !.running = FALSE]
            /\ lock' = NoOwner
            /\ task' = TaskIdle
       ELSE /\ task' = IF ~info[task.i + 1].is_active THEN [task EXCEPT !.i = @ + 1]
                       ELSE IF IsStale(info[task.i + 1], jiffies)
                       THEN [task EXCEPT !.pc = "query"]
                       ELSE [task EXCEPT !.pc = "check", !.err = 0]
            /\ UNCHANGED <<dwork, lock>>
    /\ last_ret' = NoRet
    /\ UNCHANGED <<driver, info, jiffies, update_interval, thr>>

\* hp_wmi_get_wobj returns to the refresh task.
refresh_task_query ==
    /\ task.pc = "query"
    /\ \E wobj \in PollWobjs(fw, task.i) :
         \E u \in {hp_wmi_update_info(rev, info[task.i + 1], wobj, jiffies)} :
           /\ info' = [info EXCEPT ![task.i + 1] = u.info]
           /\ task' = [task EXCEPT !.pc = "check", !.err = u.ret]
    /\ last_ret' = NoRet
    /\ UNCHANGED <<driver, jiffies, lock, update_interval, dwork, thr>>

\* The test on err in the loop body.
refresh_task_check ==
    /\ task.pc = "check"
    /\ IF refresh_task_disables(task.err)
       THEN /\ update_interval' = 0
            /\ lock' = NoOwner
            /\ dwork' = [dwork EXCEPT !.running = FALSE]
            /\ task' = TaskIdle
       ELSE /\ task' = [task EXCEPT !.pc = "loop", !.i = @ + 1]
            /\ UNCHANGED <<update_interval, lock, dwork>>
    /\ last_ret' = NoRet
    /\ UNCHANGED <<driver, info, jiffies, thr>>

\* The clock advances, up to tick last.
TickTo(last) ==
    /\ phase = "bound"
    /\ jiffies < last
    /\ jiffies' = jiffies + 1
    /\ last_ret' = NoRet
    /\ UNCHANGED <<driver, info, lock, update_interval, dwork, thr, task>>

Tick == TickTo(MaxJiffies)

Init == \E r \in {1, 2}, table \in RuntimeTables : Probed(r, table)

Next ==
    \/ \E t \in Threads : hp_wmi_hwmon_read(t)
    \/ \E t \in Threads : fungible_show(t)
    \/ \E t \in Threads : update_info_lock(t)
    \/ \E t \in Threads : update_info_query(t)
    \/ \E t \in Threads : read_return(t)
    \/ \E t \in Threads : hp_wmi_hwmon_read_chip(t)
    \/ \E t \in Threads : hp_wmi_hwmon_write(t)
    \/ \E t \in Threads : chip_write_reset_history(t)
    \/ \E t \in Threads : chip_write_update_interval(t)
    \/ \E t \in Threads : cancel_delayed_work_sync_return(t)
    \/ \E t \in Threads : chip_write_set_interval(t)
    \/ refresh_task_start
    \/ refresh_task_lock
    \/ refresh_task_loop
    \/ refresh_task_query
    \/ refresh_task_check
    \/ Tick

Spec == Init /\ [][Next]_vars

\* A lone writer of update_interval beside the refresh task.
Writer == "t1"

NextWrite ==
    \/ \E val \in WriteVals : chip_write_update_interval_val(Writer, val)
    \/ cancel_delayed_work_sync_return(Writer)
    \/ chip_write_set_interval(Writer)
    \/ refresh_task_start
    \/ refresh_task_lock
    \/ refresh_task_loop
    \/ refresh_task_query
    \/ refresh_task_check
    \/ Tick

SpecWrite == Init /\ [][NextWrite]_vars

\* A lone reader of the hwmon and debugfs files, over every poll result.
Reader == "t1"

InitRead == \E r \in {1, 2}, table \in ReaderTables : Probed(r, table)

NextRead ==
    \/ hp_wmi_hwmon_read(Reader)
    \/ fungible_show(Reader)
    \/ update_info_lock(Reader)
    \/ update_info_query_from(Reader, WidePollWobjs(fw, thr[Reader].inst))
    \/ read_return(Reader)
    \/ Tick

SpecRead == InitRead /\ [][NextRead]_vars

\* A writer of update_interval beside a reader and the refresh task, each of
\* them scheduled again and again: a thread that can take its next step takes
\* it, a query returns, and a waiter for state->lock gets it in its turn.
Other == "t2"

NextLive ==
    \/ chip_write_update_interval(Writer)
    \/ cancel_delayed_work_sync_return(Writer)
    \/ chip_write_set_interval(Writer)
    \/ hp_wmi_hwmon_read(Other)
    \/ update_info_lock(Other)
    \/ update_info_query(Other)
    \/ read_return(Other)
    \/ refresh_task_start
    \/ refresh_task_lock
    \/ refresh_task_loop
    \/ refresh_task_query
    \/ refresh_task_check
    \/ Tick

Fairness ==
    /\ WF_vars(cancel_delayed_work_sync_return(Writer))
    /\ SF_vars(chip_write_set_interval(Writer))
    /\ SF_vars(update_info_lock(Other))
    /\ WF_vars(update_info_query(Other))
    /\ SF_vars(refresh_task_lock)
    /\ WF_vars(refresh_task_loop)
    /\ WF_vars(refresh_task_query)
    /\ WF_vars(refresh_task_check)

SpecLive == Init /\ [][NextLive]_vars /\ Fairness

\* A lone reader of two sensors whose firmware objects change between polls.
NextFrame ==
    \/ hp_wmi_hwmon_read(Reader)
    \/ fungible_show(Reader)
    \/ update_info_lock(Reader)
    \/ update_info_query_from(Reader, FramePollWobjs(fw, thr[Reader].inst))
    \/ read_return(Reader)
    \/ Tick

SpecFrame == Init /\ [][NextFrame]_vars

\* The firmware replaces the object of instance 0 by one with the same
\* number of PossibleStates strings, or with one more.
firmware_update ==
    /\ phase = "bound"
    /\ Len(fw) = 1
    /\ \E n \in {info[1].nsensor.possible_states_count,
                 info[1].nsensor.possible_states_count + 1} :
         \E wobj \in CountedWobjs(n) :
           /\ wobj # fw[1]
           /\ fw' = <<wobj>>
    /\ last_ret' = NoRet
    /\ UNCHANGED <<rev, phase, err, count, info, info_map, channel_count, debugfs, hwmon,
                   jiffies, lock, update_interval, dwork, thr, task>>

\* Discovery of one record of each PossibleStates count, then a lone reader
\* whose polls return what the firmware holds at the time.
InitCounted ==
    \E r \in {1, 2}, n \in 1..MaxStates : \E wobj \in CountedWobjs(n) : Probed(r, <<wobj>>)

NextCounted ==
    \/ firmware_update
    \/ hp_wmi_hwmon_read(Reader)
    \/ fungible_show(Reader)
    \/ update_info_lock(Reader)
    \/ update_info_query_from(Reader, {hp_wmi_get_wobj(fw, thr[Reader].inst)})
    \/ read_return(Reader)
    \/ Tick

SpecCounted == InitCounted /\ [][NextCounted]_vars

\* One foreground thread that reads, resets the history with any of
\* HistoryVals and switches the refresh task on and off, beside the task.
NextHistory ==
    \/ hp_wmi_hwmon_read(Reader)
    \/ update_info_lock(Reader)
    \/ update_info_query_from(Reader, HistoryPollWobjs(fw, thr[Reader].inst))
    \/ read_return(Reader)
    \/ \E val \in HistoryVals : hp_wmi_hwmon_write_val(Reader, val)
    \/ \E val \in HistoryVals : chip_write_reset_history_val(Reader, val)
    \/ chip_write_update_interval(Reader)
    \/ cancel_delayed_work_sync_return(Reader)
    \/ chip_write_set_interval(Reader)
    \/ refresh_task_start
    \/ refresh_task_lock
    \/ refresh_task_loop
    \/ refresh_task_query
    \/ refresh_task_check
    \/ Tick

SpecHistory == Init /\ [][NextHistory]_vars

\* What a read of a string released by devm_kfree may yield besides the
\* string's old and new contents.
FreedStr == <<"freed">>

\* The tail of hp_wmi_hwmon_read / fungible_show after the lock is dropped,
\* up to its first load from the sensor.  A tail of one load returns; the
\* rev 1 fault test has loaded operational_status, and the current_state
\* file has loaded the string pointer: `loaded` holds the sensor as it was
\* at that load.
read_tail(t) ==
    /\ thr[t].pc = "ret"
    /\ LET i_s  == info[thr[t].inst + 1]
           base == [NoRet EXCEPT !.op = thr[t].op, !.inst = thr[t].inst]
           next(pc) == [op |-> thr[t].op, pc |-> pc, inst |-> thr[t].inst, val |-> 0,
                        err |-> 0, loaded |-> i_s.nsensor]
       IN  IF thr[t].err # 0
           THEN Return(t, [base EXCEPT !.ret = thr[t].err])
           ELSE IF thr[t].op = "hwmon_read"
           THEN \E attr \in hp_wmi_hwmon_attributes(rev, i_s.type) :
                    IF attr = "fault" /\ rev = 1
                    THEN /\ thr' = [thr EXCEPT ![t] = next("load_reading")]
                         /\ last_ret' = NoRet
                    ELSE Return(t, [base EXCEPT !.attr = attr, !.has_out = TRUE,
                                           !.out = hp_wmi_hwmon_read_val(rev, i_s, attr)])
           ELSE \E prop \in FungibleProps :
                    IF prop = "current_state"
                    THEN /\ thr' = [thr EXCEPT ![t] = next("print")]
                         /\ last_ret' = NoRet
                    ELSE \E v \in {fungible_show_val(i_s.nsensor, prop)} :
                             Return(t, [base EXCEPT !.attr = prop, !.has_out = TRUE,
                                                    !.out = v.out, !.str = v.str])
    /\ UNCHANGED <<driver, info, jiffies, lock, update_interval, dwork, task>>

\* rev 1 numeric_sensor_has_fault: the load of current_reading, and the
\* result computed from it and the operational_status loaded before.
has_fault_load_reading(t) ==
    /\ thr[t].pc = "load_reading"
    /\ LET ns == [thr[t].loaded EXCEPT
                    !.current_reading = info[thr[t].inst + 1].nsensor.current_reading]
       IN  Return(t, [NoRet EXCEPT !.op = thr[t].op, !.inst = thr[t].inst,
                                   !.attr = "fault", !.has_out = TRUE,
                                   !.out = IF numeric_sensor_has_fault(rev, ns) THEN 1 ELSE 0])
    /\ UNCHANGED <<driver, info, jiffies, lock, update_interval, dwork, task>>

\* seq_printf of the current_state string through the pointer loaded
\* before.  update_numeric_sensor_from_wobj releases the string when it
\* stores a different one: the pointer then dangles, and the bytes read are
\* the old string, the new one, or something else.
seq_printf_current_state(t) ==
    /\ thr[t].pc = "print"
    /\ LET ptr == thr[t].loaded.current_state
           cur == info[thr[t].inst + 1].nsensor.current_state
       IN  \E s \in (IF cur = ptr THEN {ptr} ELSE {ptr, cur, FreedStr}) :
               Return(t, [NoRet EXCEPT !.op = thr[t].op, !.inst = thr[t].inst,
                                       !.attr = "current_state", !.has_out = TRUE,
                                       !.str = s])
    /\ UNCHANGED <<driver, info, jiffies, lock, update_interval, dwork, task>>

\* Two readers of one sensor, the tail of each read followed load by load.
NextTail ==
    \/ \E t \in Threads : hp_wmi_hwmon_read(t)
    \/ \E t \in Threads : fungible_show(t)
    \/ \E t \in Threads : update_info_lock(t)
    \/ \E t \in Threads : update_info_query_from(t, TailPollWobjs(fw, thr[t].inst))
    \/ \E t \in Threads : read_tail(t)
    \/ \E t \in Threads : has_fault_load_reading(t)
    \/ \E t \in Threads : seq_printf_current_state(t)
    \/ TickTo(MaxTailJiffies)

SpecTail == InitRead /\ [][NextTail]_vars

(***************************************************************************)
(* Properties of discovery (checked under SpecInit)                        *)
(***************************************************************************)
Instances == 0..(Len(fw) - 1)

\* What the firmware object of instance k carries, read off the object itself.
ShapeOK(k) == check_wobj(fw[k + 1]).err = 0
RawType(k) == fw[k + 1].elements[HP_WMI_PROPERTY_SENSOR_TYPE + 1].integer
RawStatus(k) == fw[k + 1].elements[HP_WMI_PROPERTY_OPERATIONAL_STATUS + 1].integer
RawUnits(k) == fw[k + 1].elements[Len(fw[k + 1].elements) - 2].integer

\* The classifier table of the specification.
SupportedPairs ==
    { <<HP_WMI_TYPE_TEMPERATURE, HP_WMI_UNITS_DEGREES_C>>,
      <<HP_WMI_TYPE_TEMPERATURE, HP_WMI_UNITS_DEGREES_F>>,
      <<HP_WMI_TYPE_TEMPERATURE, HP_WMI_UNITS_DEGREES_K>>,
      <<HP_WMI_TYPE_VOLTAGE, HP_WMI_UNITS_VOLTS>>,
      <<HP_WMI_TYPE_CURRENT, HP_WMI_UNITS_AMPS>>,
      <<HP_WMI_TYPE_AIR_FLOW, HP_WMI_UNITS_RPM>> }
Supported(k) == <<RawType(k), RawUnits(k)>> \in SupportedPairs

\* Instance k fails validation or decoding.
DecodeFails(k) == populate_numeric_sensor_from_wobj(rev, ZeroSensor, fw[k + 1]).err # 0
FirstBad(k) == DecodeFails(k) /\ \A j \in 0..(k - 1) : ~DecodeFails(j)

\* Instance k has a hwmon channel.
InMap(k) == \E t \in HwmonTypes : \E c \in 1..Len(info_map[t]) : info_map[t][c] = k
NothingRegistered == count = 0 /\ debugfs = {} /\ ~hwmon /\ ~(\E k \in Instances : InMap(k))

\* C6 (as claimed): a record that fails validation or decoding is fatal at
\* instance 0 only; at an instance k > 0 discovery stops at k, keeps the
\* instances 0..k-1 and initialisation succeeds.
C6_LaterFailureNotFatal ==
    phase # "unbound" =>
        \A k \in Instances :
            FirstBad(k) =>
                IF k = 0 THEN phase = "failed"
                ELSE phase = "bound" /\ err = 0 /\ count = k /\ debugfs = 0..(k - 1)

\* C6 (amended): a record that fails validation or decoding is fatal at every
\* instance index: hp_wmi_sensors_init returns the decode error and nothing
\* is registered, whether the record is instance 0 or a later one.
C6_AnyFailureFatal ==
    phase # "unbound" =>
        \A k \in Instances :
            FirstBad(k) => phase = "failed" /\ err = -EINVAL /\ NothingRegistered

\* C6 witness: a probe that failed on a record after instance 0.
C6_Witness == phase = "failed" /\ \E k \in Instances : k > 0 /\ FirstBad(k)

\* C7 (as claimed): a record that passes check_wobj with a pair outside the
\* classifier table, whatever its SensorType code, does not abort discovery:
\* it is left out of the live set, counted, given a debugfs directory, and
\* discovery goes on to the next instance.
C7_UnsupportedNeverAborts ==
    (phase # "unbound" /\ \A j \in Instances : ShapeOK(j)) =>
        /\ Len(fw) > 0 => (phase = "bound" /\ count = Len(fw))
        /\ \A k \in Instances :
              ~Supported(k) => ~info[k + 1].is_active /\ ~InMap(k) /\ k \in debugfs

\* C7 (amended): the same for SensorType codes up to Air Flow (12); a record
\* with a SensorType code above 12 makes the decode fail with -EINVAL, which
\* aborts discovery.
C7_UnsupportedKnownTypeSkipped ==
    (phase # "unbound" /\ \A j \in Instances : ShapeOK(j)) =>
        IF \E j \in Instances : RawType(j) > HP_WMI_TYPE_AIR_FLOW
        THEN phase = "failed" /\ err = -EINVAL /\ NothingRegistered
        ELSE /\ Len(fw) > 0 => (phase = "bound" /\ count = Len(fw))
             /\ \A k \in Instances :
                   ~Supported(k) => ~info[k + 1].is_active /\ ~InMap(k) /\ k \in debugfs

\* C7 witness: discovery went past a sensor with an unsupported pair and gave
\* the sensor after it a channel.
C7_Witness ==
    /\ phase = "bound"
    /\ \E k \in Instances : ~Supported(k) /\ k + 1 < count /\ InMap(k + 1)

\* The discovery of the end-to-end scenario: Temperature/Celsius,
\* Voltage/Volts and a No-Contact fan.
ScenarioTable ==
    << NumericWobj(HP_WMI_TYPE_TEMPERATURE, HP_WMI_UNITS_DEGREES_C, HP_WMI_STATUS_OK, 25),
       NumericWobj(HP_WMI_TYPE_VOLTAGE, HP_WMI_UNITS_VOLTS, HP_WMI_STATUS_OK, 25),
       NumericWobj(HP_WMI_TYPE_AIR_FLOW, HP_WMI_UNITS_RPM, HP_WMI_STATUS_NO_CONTACT, 25) >>

\* C8: a sensor that is No Contact at discovery never gets a hwmon channel,
\* whatever its type and units, yet is counted and has a debugfs directory;
\* the scenario yields exactly Temperature channel 0 and Voltage channel 0
\* and three debugfs directories.
C8_NoContactExcluded ==
    phase = "bound" =>
        /\ \A k \in Instances :
              RawStatus(k) = HP_WMI_STATUS_NO_CONTACT =>
                  ~info[k + 1].is_active /\ ~InMap(k) /\ k < count /\ k \in debugfs
        /\ fw = ScenarioTable =>
              /\ info_map["hwmon_temp"] = <<0>> /\ info_map["hwmon_in"] = <<1>>
              /\ info_map["hwmon_curr"] = <<>> /\ info_map["hwmon_fan"] = <<>>
              /\ count = 3 /\ debugfs = {0, 1, 2}

\* C8 witness: the scenario has been discovered.
C8_Witness == phase = "bound" /\ fw = ScenarioTable /\ hwmon

\* C9 (as claimed): a sensor with a supported pair whose status at discovery
\* is an error status other than No Contact is in the live set with a channel
\* and its fault attribute reads true.
C9_UnhealthyStaysLive ==
    phase = "bound" =>
        \A k \in Instances :
            (Supported(k) /\ RawStatus(k) = HP_WMI_STATUS_DEGRADED) =>
                info[k + 1].is_active /\ InMap(k)
                /\ numeric_sensor_has_fault(rev, info[k + 1].nsensor)

\* The live sensors of a category, as instance numbers.
LiveOf(type) == { k \in 0..(count - 1) : info[k + 1].is_active /\ info[k + 1].type = type }

\* C11: the registry hp_wmi_sensors_init builds has, per category, the
\* channels 0 .. n-1 for its n live sensors with no gap; every live sensor
\* is at exactly one (category, channel), no inactive sensor at any; within
\* a category the channels are in ascending instance order, so the mapping
\* is fixed by the discovery sequence.
C11_RegistryDenseOrdered ==
    (phase = "bound" /\ hwmon) =>
        /\ \A type \in HwmonTypes :
              /\ Len(info_map[type]) = Cardinality(LiveOf(type))
              /\ channel_count[type] = Len(info_map[type])
              /\ \A c \in 1..Len(info_map[type]) : info_map[type][c] \in LiveOf(type)
              /\ \A c, d \in 1..Len(info_map[type]) :
                    c < d => info_map[type][c] < info_map[type][d]
        /\ \A k \in 0..(count - 1) :
              Cardinality({ tc \in HwmonTypes \X (1..MaxInst) :
                              tc[2] <= Len(info_map[tc[1]]) /\ info_map[tc[1]][tc[2]] = k })
                  = IF info[k + 1].is_active THEN 1 ELSE 0

\* C11 witness: a category with two channels whose sensors are separated by
\* a sensor that has no channel there.
C11_Witness ==
    /\ phase = "bound" /\ hwmon
    /\ \E type \in HwmonTypes :
          /\ Len(info_map[type]) = 2
          /\ info_map[type][1] + 1 < info_map[type][2]

(***************************************************************************)
(* Properties of the decode of one record (checked under SpecRecord)       *)
(***************************************************************************)
\* The field types of the record discovery is run on.
FieldTypes == [k \in 1..Len(fw[1].elements) |-> fw[1].elements[k].type]

\* The record has exactly the layout of n PossibleStates and t trailing integers.
HasShape(n, t) == fw[1].type = "PACKAGE" /\ FieldTypes = ShapeTypes(n, t)

\* C12: a record [String, String, Integer, String, Integer, String,
\* String x N, Integer, Integer, Integer] with N >= 1 and at most 32 fields
\* passes check_wobj, which reports exactly N; a record with N = 0, or with
\* fewer than three trailing integers, is rejected.
C12_WellFormedAccepted ==
    \A n \in 0..MaxStates, t \in 0..MaxTrail :
        HasShape(n, t) =>
            /\ (n >= 1 /\ t = 3 /\ 9 + n <= HP_WMI_MAX_PROPERTIES) =>
                  /\ check_wobj(fw[1]) = [err |-> 0, count |-> n]
                  /\ phase = "bound" =>
                        /\ info[1].nsensor.possible_states_count = n
                        /\ Len(info[1].nsensor.possible_states) = n
            /\ (n = 0 \/ t < 3) =>
                  /\ check_wobj(fw[1]).err = -EINVAL
                  /\ phase # "unbound" => (phase = "failed" /\ err = -EINVAL)

\* C12 witness: a record of exactly 32 fields has been decoded.
C12_Witness ==
    /\ phase = "bound" /\ Len(fw[1].elements) = HP_WMI_MAX_PROPERTIES
    /\ info[1].nsensor.possible_states_count = HP_WMI_MAX_PROPERTIES - 9

\* The records the specification calls well formed.
WellFormed ==
    \E n \in 1..(HP_WMI_MAX_PROPERTIES - 9) : HasShape(n, 3)

\* C13: check_wobj accepts a record if and only if it is a package of at
\* most 32 fields of exactly the layout above with 1 <= N <= 23; every other
\* record (not a package, more than 32 fields, a wrong type at any position,
\* no PossibleStates, fewer than three trailing integers, fields after
\* CurrentReading) is rejected and the output count is not written.
C13_AcceptsExactlyWellFormed ==
    /\ check_wobj(fw[1]).err = 0 <=> WellFormed
    /\ ~WellFormed =>
          /\ check_wobj(fw[1]) = [err |-> -EINVAL, count |-> 0]
          /\ phase # "unbound" => (phase = "failed" /\ err = -EINVAL /\ info = <<>>)

\* C13 witness: discovery has rejected a record of at most 32 fields that
\* has a field after CurrentReading.
C13_Witness ==
    /\ phase = "failed" /\ Len(fw[1].elements) <= HP_WMI_MAX_PROPERTIES
    /\ \E n \in 1..MaxStates : HasShape(n, 4)

\* The category the specification gives a (SensorType, BaseUnits) pair.
ClaimedCategory(sensor_type, base_units) ==
    CASE sensor_type = HP_WMI_TYPE_TEMPERATURE
           /\ base_units \in {HP_WMI_UNITS_DEGREES_C, HP_WMI_UNITS_DEGREES_F,
                              HP_WMI_UNITS_DEGREES_K} -> "hwmon_temp"
      [] sensor_type = HP_WMI_TYPE_VOLTAGE /\ base_units = HP_WMI_UNITS_VOLTS -> "hwmon_in"
      [] sensor_type = HP_WMI_TYPE_CURRENT /\ base_units = HP_WMI_UNITS_AMPS -> "hwmon_curr"
      [] sensor_type = HP_WMI_TYPE_AIR_FLOW /\ base_units = HP_WMI_UNITS_RPM -> "hwmon_fan"
      [] OTHER -> "unsupported"

RawReading(k) == fw[k + 1].elements[Len(fw[k + 1].elements)].integer

\* The sensor classify_numeric_sensor sees for the record.
RawSensor == [ZeroSensor EXCEPT !.sensor_type = RawType(0), !.base_units = RawUnits(0)]

\* C14: classify_numeric_sensor gives the category exactly for
\* (Temperature, C | F | K), (Voltage, Volts), (Current, Amps) and
\* (Air Flow, RPM), and Unsupported for every other pair, among them
\* (Temperature, Volts) and (Tachometer, RPM); discovery gives a channel of
\* that category to a healthy sensor of a supported pair and none to one of
\* an unsupported pair.
C14_ClassifierTable ==
    ShapeOK(0) =>
        /\ IF ClaimedCategory(RawType(0), RawUnits(0)) = "unsupported"
           THEN classify_numeric_sensor(RawSensor) = -EINVAL
           ELSE /\ classify_numeric_sensor(RawSensor) = RawType(0)
                /\ hp_wmi_hwmon_type_map(classify_numeric_sensor(RawSensor))
                      = ClaimedCategory(RawType(0), RawUnits(0))
        /\ phase = "bound" =>
              IF ClaimedCategory(RawType(0), RawUnits(0)) = "unsupported"
              THEN ~info[1].is_active /\ ~InMap(0) /\ ~hwmon
              ELSE (RawStatus(0) = HP_WMI_STATUS_OK /\ RawReading(0) # 0) =>
                      /\ info[1].is_active
                      /\ info[1].type = ClaimedCategory(RawType(0), RawUnits(0))
                      /\ info_map[info[1].type] = <<0>>

\* C14 witness: a Tachometer / RPM sensor was discovered and left without a
\* channel.
C14_Witness ==
    /\ phase = "bound" /\ ShapeOK(0)
    /\ RawType(0) = HP_WMI_TYPE_TACHOMETER /\ RawUnits(0) = HP_WMI_UNITS_RPM
    /\ ~info[1].is_active

\* The decade the specification scales a sensor to: units for fans,
\* milli-units otherwise.
TargetModifier(ns) == IF ns.sensor_type = HP_WMI_TYPE_AIR_FLOW THEN 0 ELSE -3

\* v * 10^k does not exceed LONG_MAX.
RECURSIVE Fits(_, _)
Fits(v, k) == k <= 0 \/ v = 0 \/ (v <= LONG_MAX \div 10 /\ Fits(v * 10, k - 1))

\* v * 10^k, for a product that fits.
RECURSIVE Times10(_, _)
Times10(v, k) == IF k <= 0 \/ v = 0 THEN v ELSE Times10(v * 10, k - 1)

RECURSIVE Pow10(_)
Pow10(k) == IF k <= 0 THEN 1 ELSE 10 * Pow10(k - 1)

Abs(x) == IF x < 0 THEN -x ELSE x

\* f * 5 / 9 rounded to the nearest integer (there are no ties), computed
\* without forming f * 5.
Nearest59(f) ==
    IF f >= 0 THEN 5 * (f \div 9) + (5 * (f % 9) + 4) \div 9
    ELSE -(5 * ((-f) \div 9) + (5 * ((-f) % 9) + 4) \div 9)

\* res is the value of x milli-units (or RPM) of the sensor's base unit in
\* the hwmon unit, to within one unit of the last place.
ConvertedFrom(ns, x, res) ==
    IF ns.sensor_type = HP_WMI_TYPE_TEMPERATURE /\ ns.base_units = HP_WMI_UNITS_DEGREES_F
    THEN Abs(res - Nearest59(x - 32 * MILLI)) <= 1
    ELSE IF ns.sensor_type = HP_WMI_TYPE_TEMPERATURE /\ ns.base_units = HP_WMI_UNITS_DEGREES_K
    THEN res = x + ABSOLUTE_ZERO_MILLICELSIUS
    ELSE res = x

\* res is the scaled value of sensor ns as the specification defines it:
\* LONG_MAX if the decade multiplication exceeds LONG_MAX, else the
\* converted value of reading * 10^shift to within one unit.
ScaledAsSpecified(ns, shift, res) ==
    IF ~Fits(ns.current_reading, shift) THEN res = LONG_MAX
    ELSE IF shift >= 0 THEN ConvertedFrom(ns, Times10(ns.current_reading, shift), res)
    ELSE \E x \in { ns.current_reading \div Pow10(-shift),
                    ns.current_reading \div Pow10(-shift) + 1 } : ConvertedFrom(ns, x, res)

\* C15 (as claimed): for every reading, unit modifier and supported category
\* and base unit, the value scale_numeric_sensor returns is the correct
\* value at fixed-point resolution or, when the scaling exceeds LONG_MAX,
\* exactly LONG_MAX.
C15_ExactOrSaturated ==
    (phase = "bound" /\ info[1].is_active) =>
        ScaledAsSpecified(info[1].nsensor,
                          info[1].nsensor.unit_modifier - TargetModifier(info[1].nsensor),
                          info[1].cached_val)

\* v milli-degrees Fahrenheit of a sensor whose decade scaling does not
\* saturate.
MilliFahrenheit(ns) ==
    IF ns.unit_modifier >= -3 THEN Times10(ns.current_reading, ns.unit_modifier + 3)
    ELSE scale_down(ns.current_reading, ns.unit_modifier, -3)

\* C16 (as claimed): a Temperature / Degrees F sensor whose scaled reading v
\* does not saturate reports (v - 32000) * 5 / 9 rounded to the nearest
\* integer, also for v < 32000; v = 32000 reports 0.
C16_FahrenheitNearest ==
    (/\ phase = "bound" /\ info[1].is_active
     /\ info[1].nsensor.sensor_type = HP_WMI_TYPE_TEMPERATURE
     /\ info[1].nsensor.base_units = HP_WMI_UNITS_DEGREES_F
     /\ Fits(info[1].nsensor.current_reading, info[1].nsensor.unit_modifier + 3)) =>
        info[1].cached_val = Nearest59(MilliFahrenheit(info[1].nsensor) - 32 * MILLI)

(***************************************************************************)
(* Properties of the running driver (checked under Spec)                   *)
(***************************************************************************)
Reads == {"hwmon_read", "fungible_show"}

\* Who has a firmware query in flight.
Querying ==
    {t \in Threads : thr[t].pc = "query"} \cup (IF task.pc = "query" THEN {Worker} ELSE {})

\* C1 (as claimed): a query is only ever in flight for an entry that is
\* stale: readers inside the TTL issue none, and of the readers that found the
\* entry stale only one queries before the entry is fresh again.
C1_QueryOnlyWhenStale ==
    /\ \A t \in Threads :
          thr[t].pc = "query" => IsStale(info[thr[t].inst + 1], jiffies)
    /\ task.pc = "query" => IsStale(info[task.i + 1], jiffies)

\* C2: after discovery at most one firmware query is in flight, and whoever
\* issued it holds state->lock.
C2_OneQueryUnderLock ==
    /\ Cardinality(Querying) <= 1
    /\ \A q \in Querying : lock = q

\* C2 witness: a query is in flight while another reader or the refresh task
\* waits for the lock.
C2_Witness ==
    \E t \in Threads :
        /\ thr[t].pc = "query"
        /\ task.pc = "lock" \/ \E u \in Threads \ {t} : thr[u].pc = "lock"

\* The refresh task acts on the result of hp_wmi_update_info.
TaskChecks == task.pc = "check" /\ task'.pc # "check"

\* C3 (as claimed): when a query of the refresh task fails, the task sets
\* update_interval to 0 and ends without rescheduling itself; when the update
\* succeeds the task does not disable itself.
C3_TaskStopsOnFailureOnly ==
    [][ /\ (TaskChecks /\ task.err # 0) =>
              update_interval' = 0 /\ ~dwork'.pending /\ ~dwork'.running
        /\ (TaskChecks /\ task.err = 0) =>
              update_interval' = update_interval /\ task'.pc = "loop" ]_vars

\* C4 (as claimed): when a write of 0 to update_interval returns, the refresh
\* task is neither running nor queued.
C4_DisableLeavesTaskOff ==
    [][ \A t \in Threads :
           (thr[t].pc = "set" /\ thr[t].val = 0 /\ thr'[t] = Idle) =>
               ~dwork'.pending /\ ~dwork'.running /\ task'.pc = "-" ]_vars

\* C5: a foreground read whose query fails returns -EIO and no value and
\* changes no sensor's record, cached value or last_updated, nor the live
\* set; an entry that was stale stays stale, a read that finds an entry
\* stale goes on to query, and a read whose query succeeds returns a value.
C5_FailedReadIsLocal ==
    [][ \A t \in Threads :
          /\ (thr[t].pc = "query" /\ thr'[t].pc = "ret" /\ thr'[t].err # 0) =>
                /\ thr'[t].err = -EIO
                /\ info' = info /\ info_map' = info_map
                /\ IsStale(info[thr[t].inst + 1], jiffies) =>
                       IsStale(info'[thr[t].inst + 1], jiffies')
          /\ (thr[t].pc = "ret" /\ thr'[t] = Idle) =>
                /\ last_ret'.ret = thr[t].err
                /\ last_ret'.has_out <=> thr[t].err = 0
                /\ info' = info
          /\ (thr[t] = Idle /\ thr'[t].op \in Reads
                /\ IsStale(info[thr'[t].inst + 1], jiffies)) =>
                thr'[t].pc \in {"query", "lock"} ]_vars

\* C5 witness: a read has just returned -EIO without a value, and its entry
\* is still stale.
C5_Witness ==
    /\ last_ret.op \in Reads /\ last_ret.ret = -EIO /\ ~last_ret.has_out
    /\ IsStale(info[last_ret.inst + 1], jiffies)

\* C10: after discovery no step changes a sensor's is_active flag or type,
\* nor info_map and the channel counts.
C10_LiveSetFixed ==
    [][ phase = "bound" =>
          /\ \A k \in DOMAIN info :
                /\ info'[k].is_active = info[k].is_active
                /\ info'[k].type = info[k].type
          /\ DOMAIN info' = DOMAIN info
          /\ info_map' = info_map
          /\ channel_count' = channel_count ]_vars

\* C10 witness: a sensor left out at discovery has since been polled as
\* connected and healthy with a supported pair, and is still left out.
C10_Witness ==
    /\ phase = "bound"
    /\ \E k \in DOMAIN info :
          /\ ~info[k].is_active
          /\ info[k].last_updated > 0
          /\ info[k].nsensor.operational_status = HP_WMI_STATUS_OK
          /\ classify_numeric_sensor(info[k].nsensor) >= 0
          /\ ~InMap(k - 1)

\* The values the specification accepts for update_interval.
ValidInterval(v) ==
    v = 0 \/ (v >= HP_WMI_MIN_UPDATE_INTERVAL /\ v <= HP_WMI_MAX_UPDATE_INTERVAL)

\* C17: a write of v to update_interval succeeds if and only if v = 0 or
\* 5000 <= v <= 604800000 and then stores v; any other v returns the range
\* error and leaves update_interval and the queued or running state of the
\* refresh task as they were.
C17_WriteRangeChecked ==
    [][last_ret'.op = "update_interval" =>
          /\ last_ret'.ret = 0 <=> ValidInterval(last_ret'.val)
          /\ last_ret'.ret = 0 => update_interval' = last_ret'.val
          /\ last_ret'.ret # 0 =>
                /\ last_ret'.ret = -ERANGE
                /\ update_interval' = update_interval
                /\ dwork' = dwork /\ task' = task]_vars

\* C17 witness: a negative value has been rejected while the refresh task
\* was queued or running.
C17_Witness ==
    /\ last_ret.op = "update_interval" /\ last_ret.ret = -ERANGE /\ last_ret.val < 0
    /\ update_interval # 0
    /\ dwork.pending \/ dwork.running

\* A thread enters a read and makes the freshness test of hp_wmi_update_info.
ReadTested(t) == thr[t] = Idle /\ thr'[t].op \in Reads

\* Ticks since the entry the read is about was last refreshed.
EntryAge(t) == jiffies - info[thr'[t].inst + 1].last_updated

\* C19 (as claimed): a read returns the cached value without polling if and
\* only if now - last_refreshed < TTL; at now - last_refreshed >= TTL,
\* exactly TTL included, it goes on to issue a new query.
C19_FreshIffYoungerThanTTL ==
    [][\A t \in Threads :
          ReadTested(t) => (thr'[t].pc = "ret" <=> EntryAge(t) < HZ)]_vars

\* C19 (amended): a read returns the cached value without polling if and
\* only if now - last_refreshed <= TTL at its freshness test; it goes on to
\* issue a new query only when now - last_refreshed > TTL.
C19_FreshIffNotOlderThanTTL ==
    [][\A t \in Threads :
          ReadTested(t) =>
             /\ thr'[t].pc = "ret" <=> EntryAge(t) <= HZ
             /\ thr'[t].pc \in {"lock", "query"} <=> EntryAge(t) > HZ]_vars

\* C19 witness: a read is about to return the cached value of an entry that
\* is exactly TTL old and that nobody has polled since discovery.
C19_Witness ==
    \E t \in Threads :
        /\ thr[t].op \in Reads /\ thr[t].pc = "ret" /\ thr[t].err = 0
        /\ info[thr[t].inst + 1].last_updated = 0 /\ jiffies = HZ

(***************************************************************************)
(* Properties of a lone reader (checked under SpecRead)                    *)
(***************************************************************************)
\* C18 (as claimed): on a Temperature or Fan channel a successful read of
\* fault returns true exactly when operational_status is not OK or
\* current_reading is zero, and false exactly when the status is OK and the
\* reading is non-zero, whatever the status code.
C18_FaultIffNotOkOrZero ==
    (/\ last_ret.op = "hwmon_read" /\ last_ret.attr = "fault" /\ last_ret.ret = 0
     /\ info[last_ret.inst + 1].type \in {"hwmon_temp", "hwmon_fan"}) =>
        /\ last_ret.out \in {0, 1}
        /\ last_ret.out = 1 <=>
              \/ info[last_ret.inst + 1].nsensor.operational_status # HP_WMI_STATUS_OK
              \/ info[last_ret.inst + 1].nsensor.current_reading = 0

\* The sensor record of instance k.
Fungibles(i_s) ==
    <<i_s.cached_val, i_s.nsensor.unit_modifier, i_s.nsensor.current_reading,
      i_s.nsensor.operational_status>>

\* Poll results with the shape instance k had at discovery.
SameShapePolls(k) ==
    { w \in WidePollWobjs(fw, k) :
        /\ w # NullObj
        /\ [j \in 1..Len(w.elements) |-> w.elements[j].type]
              = [j \in 1..Len(fw[k + 1].elements) |-> fw[k + 1].elements[j].type] }

\* C20 (as claimed): a refresh that receives a record whose shape differs
\* from the one seen at discovery is treated as a failed decode, so that
\* every refresh leaves cached_val, unit_modifier, current_reading and
\* operational_status either as they were or as the decode of a record of
\* the discovered shape sets them.
C20_ReshapedRefreshIgnored ==
    [][(thr[Reader].pc = "query" /\ thr'[Reader].pc = "ret") =>
          \/ Fungibles(info'[thr[Reader].inst + 1]) = Fungibles(info[thr[Reader].inst + 1])
          \/ \E w \in SameShapePolls(thr[Reader].inst) :
                Fungibles(info'[thr[Reader].inst + 1]) =
                   Fungibles(hp_wmi_update_info(rev, info[thr[Reader].inst + 1], w, jiffies).info)]_vars

(***************************************************************************)
(* Properties of the decade scaling (checked under SpecRecord)             *)
(***************************************************************************)
\* v / 10 rounded to the nearest integer, a tie away from zero (v >= 0).
NearestDecade(v) == v \div 10 + (IF v % 10 >= 5 THEN 1 ELSE 0)

\* v shrunk by k decades, one at a time.
RECURSIVE Shrunk(_, _)
Shrunk(v, k) == IF k <= 0 THEN v ELSE Shrunk(NearestDecade(v), k - 1)

\* The sensor's scaled value is not converted to another unit afterwards.
Unconverted(ns) ==
    ns.sensor_type # HP_WMI_TYPE_TEMPERATURE \/ ns.base_units = HP_WMI_UNITS_DEGREES_C

\* C29: a reading whose unit modifier is below the target exponent is
\* divided by 10 once per decade, each time rounded to the nearest integer
\* with a tie away from zero (5 -> 1, 15 -> 2, 25 -> 3, 4 -> 0); a reading
\* whose modifier is above the target is multiplied by 10 once per decade,
\* and becomes LONG_MAX at the first step whose product would exceed
\* LONG_MAX.
C29_DecadeScaling ==
    (phase = "bound" /\ info[1].is_active /\ Unconverted(info[1].nsensor)) =>
        LET ns    == info[1].nsensor
            shift == ns.unit_modifier - TargetModifier(ns)
        IN  info[1].cached_val =
                IF shift < 0 THEN Shrunk(ns.current_reading, -shift)
                ELSE IF Fits(ns.current_reading, shift)
                     THEN Times10(ns.current_reading, shift)
                     ELSE LONG_MAX

\* C29 witness: a reading of 25 one decade below the target has been scaled
\* to 3 (truncation and ties-to-even both give 2).
C29_Witness ==
    /\ phase = "bound" /\ info[1].is_active /\ Unconverted(info[1].nsensor)
    /\ info[1].nsensor.current_reading = 25
    /\ info[1].nsensor.unit_modifier = TargetModifier(info[1].nsensor) - 1
    /\ info[1].cached_val = 3

\* The sensor discovery stored for the record is the decode of its fields
\* 0 .. 8 + N: N possible states in the record's order, BaseUnits,
\* UnitModifier and CurrentReading from the fields 6 + N, 7 + N and 8 + N, and
\* OtherSensorType only for SensorType Other.
DecodedByLayout ==
    LET e  == fw[1].elements
        N  == check_wobj(fw[1]).count
        ns == info[1].nsensor
    IN  /\ phase = "bound"
        /\ Len(e) = 9 + N
        /\ ns.possible_states_count = N
        /\ ns.possible_states = [k \in 1..N |-> extract_string(rev, e[6 + k])]
        /\ ns.base_units = e[6 + N + 1].integer
        /\ ns.unit_modifier = e[7 + N + 1].integer
        /\ ns.current_reading = e[8 + N + 1].integer
        /\ ns.sensor_type = e[2 + 1].integer
        /\ ns.other_sensor_type =
              IF e[2 + 1].integer = HP_WMI_TYPE_OTHER
              THEN extract_string(rev, e[3 + 1]) ELSE NullStr

\* C30 (as claimed): every record check_wobj accepts with count N is decoded
\* from the fields below 9 + N only: exactly N possible states in firmware
\* order, BaseUnits, UnitModifier and CurrentReading from the fields 6 + N,
\* 7 + N and 8 + N, and OtherSensorType stored only when SensorType is Other.
C30_DecodeByLayout ==
    (phase # "unbound" /\ check_wobj(fw[1]).err = 0) => DecodedByLayout

\* C30 (amended): the same for the accepted records whose SensorType is at
\* most Air Flow (12); for a greater SensorType the decode stops at that
\* field with -EINVAL and no sensor is stored.
C30_DecodeByLayoutKnownType ==
    (phase # "unbound" /\ check_wobj(fw[1]).err = 0) =>
        IF RawType(0) > HP_WMI_TYPE_AIR_FLOW
        THEN phase = "failed" /\ err = -EINVAL /\ info = <<>>
        ELSE DecodedByLayout

\* C30 witness: a record of SensorType Other and one of another type have
\* each been decoded: this one has two distinct possible states and stored
\* its OtherSensorType.
C30_Witness ==
    /\ phase = "bound"
    /\ RawType(0) = HP_WMI_TYPE_OTHER
    /\ info[1].nsensor.other_sensor_type = <<"o">>
    /\ info[1].nsensor.possible_states = StateNames
    /\ info[1].nsensor.current_reading = 25

(***************************************************************************)
(* Properties of the lock, the task and the handlers (checked under Spec)  *)
(***************************************************************************)
\* The entries of state->info[] that a step changes.
Mutated == {k \in DOMAIN info : info'[k] # info[k]}

\* The step is the refresh of a foreground reader that holds state->lock.
ForegroundRefresh(t) ==
    /\ lock = t /\ thr[t].pc = "query" /\ thr'[t].pc = "ret"
    /\ Mutated \subseteq {thr[t].inst + 1}

\* The step is a refresh of the task while the worker holds state->lock.
BackgroundRefresh ==
    /\ lock = Worker /\ task.pc = "query" /\ task'.pc = "check"
    /\ Mutated \subseteq {task.i + 1}

\* The step is a whole reset_history write: lock, reset, unlock.
ResetHistory ==
    /\ lock = NoOwner /\ lock' = NoOwner
    /\ last_ret'.op \in {"reset_history", "chip_reset_history"} /\ last_ret'.ret = 0

\* C21: after discovery every step that changes a sensor's record fields,
\* cached value, lowest/highest history or last_updated is the refresh of the
\* thread or worker that holds state->lock, or a reset_history write that took
\* the free lock for its whole length; so no two such mutations interleave.
C21_MutationsUnderLock ==
    [][Mutated # {} =>
          \/ \E t \in Threads : ForegroundRefresh(t)
          \/ BackgroundRefresh
          \/ ResetHistory]_vars

\* C21 witness: the worker has just refreshed a sensor under the lock while a
\* foreground thread waits for that lock.
C21_Witness ==
    /\ lock = Worker /\ task.pc = "check" /\ task.err = 0
    /\ info[task.i + 1].last_updated = jiffies /\ jiffies > 0
    /\ \E t \in Threads : thr[t].pc \in {"set", "lock"}

\* A run of hp_wmi_sensors_refresh_task ends in this step.
RunEnds == task.pc # "-" /\ task'.pc = "-"

\* C23 (as claimed): while update_interval is non-zero, no write is
\* cancelling the work and every query of the run succeeded, a run of the
\* refresh task ends only past the last sensor, leaves update_interval as it
\* was and queues itself again update_interval ms later.
C23_RunReschedules ==
    [][(RunEnds /\ task.err = 0 /\ update_interval # 0 /\ dwork.canceling = NoOwner) =>
          /\ task.i >= count
          /\ update_interval' = update_interval
          /\ dwork'.pending
          /\ dwork'.due = jiffies + msecs_to_jiffies(task.update_interval)]_vars

\* No thread is inside a write to update_interval.
NoIntervalWrite == \A t \in Threads : thr[t].op # "update_interval"

\* C24 (as claimed): whenever no write to update_interval is in progress,
\* update_interval is 0 exactly when the refresh task is neither queued nor
\* running, whatever the interleaving of the task and of one or more writers.
C24_ZeroIffTaskOff ==
    NoIntervalWrite => (update_interval = 0 <=> (~dwork.pending /\ ~dwork.running))

\* C25: a write to update_interval always completes: with the refresh task
\* queued, running or waiting for state->lock, and with a reader holding the
\* lock, hp_wmi_hwmon_chip_write eventually returns, given that every query
\* returns (checked under SpecLive).
C25_WriteCompletes ==
    (thr[Writer].op = "update_interval") ~> (thr[Writer] = Idle)

\* C25 witness: the writer waits in cancel_delayed_work_sync for a run of
\* the task that itself waits for state->lock, which a reader holds.
C25_Witness ==
    /\ thr[Writer].pc = "cancel_wait"
    /\ dwork.running /\ task.pc = "lock"
    /\ lock = Other

(***************************************************************************)
(* Properties of racing readers (checked under SpecTail)                   *)
(***************************************************************************)
\* A read returns a value to its caller in this step.
ReadReturns(t) ==
    /\ thr[t].op \in {"hwmon_read", "fungible_show"}
    /\ thr'[t] = Idle /\ last_ret'.has_out

\* The sensor states a returning read may report: the state at its first
\* load and the state at its return.
Snapshots(t) ==
    {info[thr[t].inst + 1]}
    \cup (IF thr[t].pc = "ret" THEN {}
          ELSE {[info[thr[t].inst + 1] EXCEPT !.nsensor = thr[t].loaded]})

\* C22 (as claimed): whatever refreshes of the same sensor another thread
\* interleaves, the fault value and the current_state string a read returns
\* are those of one state of the sensor, as a completed refresh left it:
\* never operational_status of one poll with current_reading of another, and
\* never the bytes of a string the refresher has released.
C22_ReadIsSnapshot ==
    [][\A t \in Threads :
          ReadReturns(t) =>
              \E s \in Snapshots(t) :
                  IF thr[t].op = "hwmon_read"
                  THEN last_ret'.out = hp_wmi_hwmon_read_val(rev, s, last_ret'.attr)
                  ELSE /\ last_ret'.out = fungible_show_val(s.nsensor, last_ret'.attr).out
                       /\ last_ret'.str = fungible_show_val(s.nsensor, last_ret'.attr).str]_vars

(***************************************************************************)
(* Properties of one refresh (checked under SpecFrame)                     *)
(***************************************************************************)
\* Entry new with the fields a refresh may write taken from entry old.
WithFungiblesOf(new, old) ==
    [new EXCEPT !.nsensor = [new.nsensor EXCEPT
                                !.operational_status = old.nsensor.operational_status,
                                !.current_state = old.nsensor.current_state,
                                !.unit_modifier = old.nsensor.unit_modifier,
                                !.current_reading = old.nsensor.current_reading],
                !.cached_val = old.cached_val,
                !.lo_val = old.lo_val,
                !.hi_val = old.hi_val,
                !.last_updated = old.last_updated]

\* C26: a refresh of sensor s changes nothing of s but operational_status,
\* current_state, unit_modifier, current_reading, the cached value, the
\* lowest/highest history and last_updated, even when the polled record
\* carries another name, description, sensor type, other sensor type, base
\* units or possible states; and it changes no other sensor.
C26_RefreshFrame ==
    [][thr[Reader].pc = "query" =>
          \A k \in DOMAIN info :
              IF k = thr[Reader].inst + 1
              THEN WithFungiblesOf(info'[k], info[k]) = info[k]
              ELSE info'[k] = info[k]]_vars

\* C26 witness: a sensor has been refreshed from a record that differs from
\* the discovered one in every property, and another sensor exists.
C26_Witness ==
    /\ Len(info) > 1
    /\ \E k \in DOMAIN info :
          /\ info[k].nsensor.current_reading = ForeignReading
          /\ info[k].nsensor.current_state = <<"h">>
          /\ info[k].last_updated > 0

(***************************************************************************)
(* Properties of the refresh decode (checked under SpecCounted)            *)
(***************************************************************************)
\* The object the reader's query returns in this step.
Polled == hp_wmi_get_wobj(fw, thr[Reader].inst)

\* C27: for a polled record that passes check_wobj with the PossibleStates
\* count N recorded at discovery, the refresh stores OperationalStatus from
\* index 4, UnitModifier from index 7 + N and CurrentReading from index
\* 8 + N, which are the values populate_numeric_sensor_from_wobj decodes from
\* the same record, for every N and whether or not SensorType is Other.
C27_UpdateAsPopulate ==
    [][(/\ thr[Reader].pc = "query" /\ thr'[Reader].pc = "ret"
        /\ check_wobj(Polled).err = 0
        /\ check_wobj(Polled).count
              = info[thr[Reader].inst + 1].nsensor.possible_states_count) =>
          LET N   == check_wobj(Polled).count
              new == info'[thr[Reader].inst + 1].nsensor
              pop == populate_numeric_sensor_from_wobj(rev, ZeroSensor, Polled)
          IN  /\ new.operational_status = Polled.elements[4 + 1].integer
              /\ new.unit_modifier = Polled.elements[7 + N + 1].integer
              /\ new.current_reading = Polled.elements[8 + N + 1].integer
              /\ pop.err = 0
              /\ new.operational_status = pop.nsensor.operational_status
              /\ new.unit_modifier = pop.nsensor.unit_modifier
              /\ new.current_reading = pop.nsensor.current_reading]_vars

\* C27 witness: a sensor discovered with 23 PossibleStates and SensorType
\* Other has been refreshed from a record of that count whose SensorType is
\* not Other and whose status, modifier and reading differ.
C27_Witness ==
    /\ phase = "bound"
    /\ info[1].nsensor.possible_states_count = 23
    /\ info[1].nsensor.sensor_type = HP_WMI_TYPE_OTHER
    /\ fw[1].elements[HP_WMI_PROPERTY_SENSOR_TYPE + 1].integer = HP_WMI_TYPE_TEMPERATURE
    /\ check_wobj(fw[1]).count = 23
    /\ info[1].last_updated > 0
    /\ info[1].nsensor.operational_status = HP_WMI_STATUS_DEGRADED
    /\ info[1].nsensor.unit_modifier = -1
    /\ info[1].nsensor.current_reading = 44

(***************************************************************************)
(* Properties of the history (checked under SpecHistory)                   *)
(***************************************************************************)
\* Entry i_s has its cached value between its lowest and highest values.
Bracketed(i_s) == i_s.lo_val <= i_s.cached_val /\ i_s.cached_val <= i_s.hi_val

\* The instances a reset_history write that returned r is aimed at.
ResetTargets(r) ==
    IF r.op = "reset_history" THEN {r.inst}
    ELSE {info_map[r.attr][c] : c \in 1..channel_count[r.attr]}

\* C28: in the revision that keeps a history, every active sensor that is
\* not a fan has lo_val <= cached_val <= hi_val in every state after
\* discovery, whatever refreshes (successful or failed), reset_history
\* writes and runs of the refresh task came before; a reset_history write of
\* 1 leaves lo_val = hi_val = cached_val on its channels, and a write of any
\* other value returns an error and changes nothing.
C28_HistoryBrackets ==
    [][/\ rev = 1 =>
            \A k \in DOMAIN info :
                (info[k].is_active /\ info[k].type # "hwmon_fan") =>
                    Bracketed(info[k]) /\ Bracketed(info'[k])
       /\ last_ret'.op \in {"reset_history", "chip_reset_history"} =>
            IF last_ret'.val = 1
            THEN /\ last_ret'.ret = 0
                 /\ \A i \in ResetTargets(last_ret') :
                        /\ info'[i + 1].cached_val = info[i + 1].cached_val
                        /\ info'[i + 1].lo_val = info'[i + 1].cached_val
                        /\ info'[i + 1].hi_val = info'[i + 1].cached_val
            ELSE last_ret'.ret < 0 /\ info' = info]_vars

\* C28 witness: a reset_history write of 1 has just returned on a sensor
\* whose reading had fallen since discovery.
C28_Witness ==
    /\ last_ret.op = "reset_history" /\ last_ret.val = 1 /\ last_ret.ret = 0
    /\ info[last_ret.inst + 1].cached_val = 20000
    /\ info[last_ret.inst + 1].hi_val = 20000

====
